---- MODULE Spec2Model ----
(***************************************************************************)
(* A model of the listening-history analysis scripts of bunny-chronology:  *)
(* the record source (iter_history_records), the track key builder, the    *)
(* platform classifier and the aggregation loops of the scripts.           *)
(*                                                                         *)
(* Text is modelled as a sequence of one-character strings, so that        *)
(* strip(), lower(), concatenation and the regular expressions of the      *)
(* source are computed and not assumed.  For the fields of a history row   *)
(* the empty sequence stands for both None and "": the source only tests   *)
(* these fields for truthiness or defaults them with `or`.                 *)
(***************************************************************************)
EXTENDS Integers, Sequences, FiniteSets, TLC

VARIABLES
  script,                \* which program (or function under test) is running
  pc,                    \* the position of that program
  n,                     \* number of history rows the main loop has consumed
  last,                  \* <<x>>: the row or playlist item the latest iteration consumed
  \* history_top_by_year.py
  track_display,         \* track key -> display name (also in the platform scripts)
  song_counts_by_year,   \* year -> (song key, or display name in the playlist script -> count)
  artist_counts_by_year, \* year -> (artist -> count)
  global_song_counts,    \* song key -> count
  global_artist_counts,  \* artist -> count
  artist_album_counts,   \* artist -> (album -> count)
  artist_song_counts,    \* artist -> (song key -> count)
  \* history_top_songs_by_platform_grouped.py
  group_to_counts,       \* group -> (song key -> count)
  group_order,           \* groups in order of first appearance (seen_groups is its range)
  \* history_top_songs_by_platform.py
  platform_to_counts,    \* raw platform -> (song key -> count)
  platform_order,        \* platforms in order of first appearance
  \* count_bad_bunny_playlist_plays.py
  fetched,               \* number of playlist items fetch_playlist_tracks has consumed
  uri_to_display,        \* track uri -> display name
  uri_set,               \* the track uris of the playlist
  key_to_display,        \* normalized "title||artist" -> display name
  display_to_key,        \* display name -> normalized key
  song_counts,           \* display name -> count
  song_counts_old,       \* display name -> count under the old criteria
  total_plays,
  \* iter_history_records
  folder,                \* file name -> content of the directory
  files,                 \* sorted(glob.glob(pattern))
  file_idx,              \* number of files the generator is done with
  yielded,               \* the rows the generator has yielded, in order
  raised,                \* an exception left the generator
  \* a function under test: its arguments and its result
  call_args,
  call_ret,
  \* wipe_playlist
  playlist,              \* the items of the playlist on the server, in order
  depth                  \* number of calls of wipe_playlist that have not returned

byYearVars == <<song_counts_by_year, artist_counts_by_year, global_song_counts,
                global_artist_counts, artist_album_counts, artist_song_counts>>
groupedVars == <<group_to_counts, group_order>>
platformVars == <<platform_to_counts, platform_order>>
indexVars == <<fetched, uri_to_display, uri_set, key_to_display, display_to_key>>
playlistVars == <<song_counts, song_counts_old, total_plays>>
iterVars == <<folder, files, file_idx, yielded, raised>>
callVars == <<call_args, call_ret>>
wipeVars == <<playlist, depth>>

vars == <<script, pc, n, last, track_display, byYearVars, groupedVars, platformVars,
          indexVars, playlistVars, iterVars, callVars, wipeVars>>

----------------------------------------------------------------------------
(* Characters and the string operations of Python the source uses.         *)

UpperLetters == <<"A","B","C","D","E","F","G","H","I","J","K","L","M",
                  "N","O","P","Q","R","S","T","U","V","W","X","Y","Z">>
LowerLetters == <<"a","b","c","d","e","f","g","h","i","j","k","l","m",
                  "n","o","p","q","r","s","t","u","v","w","x","y","z">>
Digits == {"0","1","2","3","4","5","6","7","8","9"}

Range(s) == {s[i] : i \in 1..Len(s)}

UpperSet == Range(UpperLetters)
LowerSet == Range(LowerLetters)
WhiteSpace == {" ", "\t", "\n", "\r", "\f"}
WordSet == UpperSet \cup LowerSet \cup Digits \cup {"_"}

IsUpper(c) == c \in UpperSet
IsLower(c) == c \in LowerSet
IsDigit(c) == c \in Digits
IsSpace(c) == c \in WhiteSpace
IsWord(c)  == c \in WordSet

ToLowerMap == [c \in UpperSet |-> LowerLetters[CHOOSE i \in 1..26 : UpperLetters[i] = c]]
ToUpperMap == [c \in LowerSet |-> UpperLetters[CHOOSE i \in 1..26 : LowerLetters[i] = c]]

LowerChar(c) == IF IsUpper(c) THEN ToLowerMap[c] ELSE c
UpperChar(c) == IF IsLower(c) THEN ToUpperMap[c] ELSE c

\* str.lower()
Lower(s) == [i \in 1..Len(s) |-> LowerChar(s[i])]

\* s[i:] with a 1-based i
From(s, i) == IF i > Len(s) THEN <<>> ELSE SubSeq(s, i, Len(s))

\* number of leading characters of s, from position i on, that satisfy the class
RECURSIVE SpaceRun(_, _)
SpaceRun(s, i) == IF i <= Len(s) /\ IsSpace(s[i]) THEN 1 + SpaceRun(s, i + 1) ELSE 0
RECURSIVE DigitRun(_, _)
DigitRun(s, i) == IF i <= Len(s) /\ IsDigit(s[i]) THEN 1 + DigitRun(s, i + 1) ELSE 0

\* str.lstrip(), str.rstrip(), str.strip()
LStrip(s) == From(s, 1 + SpaceRun(s, 1))
RECURSIVE RStrip(_)
RStrip(s) == IF s # <<>> /\ IsSpace(s[Len(s)]) THEN RStrip(SubSeq(s, 1, Len(s) - 1)) ELSE s
Strip(s) == RStrip(LStrip(s))

\* str.rstrip(chars)
RECURSIVE RStripChars(_, _)
RStripChars(s, chars) ==
  IF s # <<>> /\ s[Len(s)] \in chars THEN RStripChars(SubSeq(s, 1, Len(s) - 1), chars) ELSE s

\* str.startswith(p)
StartsWith(s, p) == Len(p) <= Len(s) /\ SubSeq(s, 1, Len(p)) = p
\* does p occur in s at position i
OccursAt(s, p, i) == i + Len(p) - 1 <= Len(s) /\ SubSeq(s, i, i + Len(p) - 1) = p
\* `p in s`
Contains(s, p) == \E i \in 1..(Len(s) + 1) : OccursAt(s, p, i)
\* str.find(p), 1-based; 0 when absent
Find(s, p) ==
  IF Contains(s, p)
  THEN CHOOSE i \in 1..(Len(s) + 1) :
         OccursAt(s, p, i) /\ \A j \in 1..(i - 1) : ~OccursAt(s, p, j)
  ELSE 0

----------------------------------------------------------------------------
(* String literals of the source.                                          *)

StrUnknown       == <<"U","n","k","n","o","w","n">>
StrNamePrefix    == <<"n","a","m","e",":">>
StrDash          == <<" ","-"," ">>
StrUnknownTrack  == <<"(","U","n","k","n","o","w","n"," ","T","r","a","c","k",")">>
StrUnknownArtist == <<"(","U","n","k","n","o","w","n"," ","A","r","t","i","s","t",")">>
StrUnknownAlbum  == <<"(","U","n","k","n","o","w","n"," ","A","l","b","u","m",")">>

\* Exact platform exclusions (raw string exact match)
EXCLUDED_PLATFORMS_EXACT == {
  <<"i","O","S"," ","5",".","1",".","1"," ","(","i","P","o","d","4",",","1",")">>,
  <<"i","O","S"," ","7",".","1",".","1"," ","(","i","P","a","d","2",",","1",")">>,
  <<"i","O","S"," ","6",".","1",".","3"," ","(","i","P","o","d","4",",","1",")">>,
  <<"A","n","d","r","o","i","d"," ","O","S"," ","4",".","1",".","1"," ","A","P","I"," ","1","6"," ","(","s","a","m","s","u","n","g",","," ","S","G","H","-","I","7","4","7","M",")">>,
  <<"A","n","d","r","o","i","d"," ","O","S"," ","4",".","2",".","2"," ","A","P","I"," ","1","7"," ","(","T","C","T",","," ","A","L","C","A","T","E","L"," ","O","N","E"," ","T","O","U","C","H"," ","5","0","3","6","A",")">>,
  <<"A","n","d","r","o","i","d"," ","O","S"," ","5",".","0",".","2"," ","A","P","I"," ","2","1"," ","(","m","o","t","o","r","o","l","a",","," ","X","T","1","0","3","2",")">>,
  <<"A","n","d","r","o","i","d","-","t","a","b","l","e","t"," ","O","S"," ","5",".","0",".","2"," ","A","P","I"," ","2","1"," ","(","s","a","m","s","u","n","g",","," ","S","M","-","P","3","5","0",")">>,
  <<"W","i","n","d","o","w","s"," ","1","0"," ","(","1","0",".","0",".","1","0","5","8","6",";"," ","x","6","4",")">> }

----------------------------------------------------------------------------
(* The regular expressions of the platform classifier.  A pattern is a     *)
(* sequence of elements: a literal, an optional literal, \s* or \s+.  The  *)
(* patterns of the source all end in the capturing group (\d+), followed   *)
(* by nothing, by \b or by (?:[\.\s]|$).                                   *)

Min(S) == CHOOSE x \in S : \A y \in S : x <= y

Lit(v) == [k |-> "lit", v |-> v]
Opt(v) == [k |-> "opt", v |-> v]
Ws0    == [k |-> "ws0", v |-> <<>>]
Ws1    == [k |-> "ws1", v |-> <<>>]

\* the positions just after a match of the elements pat in s that starts at i
RECURSIVE MatchEnds(_, _, _)
MatchEnds(pat, s, i) ==
  IF pat = <<>> THEN {i}
  ELSE LET e == Head(pat)
           rest == Tail(pat)
       IN CASE e.k = "lit" ->
                 IF OccursAt(s, e.v, i) THEN MatchEnds(rest, s, i + Len(e.v)) ELSE {}
            [] e.k = "opt" ->
                 (IF OccursAt(s, e.v, i) THEN MatchEnds(rest, s, i + Len(e.v)) ELSE {})
                   \cup MatchEnds(rest, s, i)
            [] e.k = "ws0" -> UNION {MatchEnds(rest, s, i + w) : w \in 0..SpaceRun(s, i)}
            [] e.k = "ws1" -> UNION {MatchEnds(rest, s, i + w) : w \in 1..SpaceRun(s, i)}

\* what must follow the digits: "any" nothing, "b" the \b, "dot" the (?:[\.\s]|$)
TailOk(s, k, tail) ==
  CASE tail = "any" -> TRUE
    [] tail = "b"   -> k > Len(s) \/ ~IsWord(s[k])
    [] tail = "dot" -> k > Len(s) \/ s[k] = "." \/ IsSpace(s[k])

\* CaptureAt with the group (\d) in place of (\d+): one digit is captured
CaptureAtOneDigit(pat, s, i, tail) ==
  LET ends == {j \in MatchEnds(pat, s, i) : DigitRun(s, j) >= 1}
  IN IF ends = {} THEN <<>> ELSE <<s[Min(ends)]>>

\* the group (\d+) of pat(\d+)tail matched at position i of s; <<>> when no match
CaptureAt(pat, s, i, tail) ==
  LET ends == {j \in MatchEnds(pat, s, i) :
                 DigitRun(s, j) >= 1 /\ TailOk(s, j + DigitRun(s, j), tail)}
  IN IF ends = {} THEN <<>>
     ELSE LET j == Min(ends) IN SubSeq(s, j, j + DigitRun(s, j) - 1)

\* the alternatives pats (in order) at position i
AltAt(pats, s, i, tail) ==
  LET ok == {a \in 1..Len(pats) : CaptureAt(pats[a], s, i, tail) # <<>>}
  IN IF ok = {} THEN <<>> ELSE CaptureAt(pats[Min(ok)], s, i, tail)

\* re.match(...).group(1), with flags=re.IGNORECASE: the patterns are lower-case
ReMatchI(pats, s, tail) ==
  LET g == AltAt(pats, Lower(s), 1, tail) IN g

\* re.search(...).group(1): the leftmost match
ReSearch(pats, s, tail) ==
  LET hits == {i \in 1..Len(s) : AltAt(pats, s, i, tail) # <<>>}
  IN IF hits = {} THEN <<>> ELSE AltAt(pats, s, Min(hits), tail)

\* re.sub(r"\s*<open>[^<close>]*<close>\s*", repl, s), from position i on
RECURSIVE SubSegments(_, _, _, _, _)
SubSegments(s, i, open, close, repl) ==
  IF i > Len(s) THEN <<>>
  ELSE LET o == i + SpaceRun(s, i)
           closes == {c \in (o + 1)..Len(s) : s[c] = close}
       IN IF o <= Len(s) /\ s[o] = open /\ closes # {}
          THEN LET c == Min(closes)
                   e == c + 1 + SpaceRun(s, c + 1)
               IN repl \o SubSegments(s, e, open, close, repl)
          ELSE <<s[i]>> \o SubSegments(s, i + 1, open, close, repl)

\* re.sub(r"\s*\([^\)]*\)\s*", "", s)
StripParens(s) == SubSegments(s, 1, "(", ")", <<>>)

\* str.title()
RECURSIVE TitleFrom(_, _, _)
TitleFrom(s, i, prevCased) ==
  IF i > Len(s) THEN <<>>
  ELSE LET c == s[i]
           cased == IsUpper(c) \/ IsLower(c)
       IN <<IF cased THEN (IF prevCased THEN LowerChar(c) ELSE UpperChar(c)) ELSE c>>
            \o TitleFrom(s, i + 1, cased)
Title(s) == TitleFrom(s, 1, FALSE)

\* s.split(sep, 1)[0] for a one-character sep
BeforeFirst(s, sep) ==
  LET at == {i \in 1..Len(s) : s[i] = sep}
  IN IF at = {} THEN s ELSE SubSeq(s, 1, Min(at) - 1)
\* s.split(sep, 1)[1] if sep in s else ""
AfterFirst(s, sep) ==
  LET at == {i \in 1..Len(s) : s[i] = sep}
  IN IF at = {} THEN <<>> ELSE From(s, Min(at) + 1)
\* s.replace(a, b) for one-character a and b
Replace(s, a, b) == [i \in 1..Len(s) |-> IF s[i] = a THEN b ELSE s[i]]
\* s.split()[-1] if s.split() else ""
LastToken(s) ==
  LET t == RStrip(s)
      sp == {i \in 1..Len(t) : IsSpace(t[i])}
  IN IF sp = {} THEN t ELSE From(t, (CHOOSE i \in sp : \A j \in sp : j <= i) + 1)

----------------------------------------------------------------------------
(* normalize_platform_to_group (history_top_songs_by_platform_grouped.py)  *)

StrWebPlayerUs == <<"w","e","b","_","p","l","a","y","e","r">>
StrWebPlayerSp == <<"w","e","b"," ","p","l","a","y","e","r">>
StrWindows == <<"w","i","n","d","o","w","s">>
StrMac == <<"m","a","c">>
StrOs == <<"o","s">>
StrX == <<"x">>
StrMacos == <<"m","a","c","o","s">>
StrLinux == <<"l","i","n","u","x">>
StrIos == <<"i","o","s">>
StrAndroid == <<"a","n","d","r","o","i","d">>
StrTablet == <<"-","t","a","b","l","e","t">>
StrPartner == <<"p","a","r","t","n","e","r">>
StrTesla == <<"t","e","s","l","a">>
StrRoku == <<"r","o","k","u">>
StrCast == <<"c","a","s","t">>
StrGroup == <<"g","r","o","u","p">>
StrGoogleCastLc == <<"g","o","o","g","l","e"," ","c","a","s","t">>
StrGoogleCastGroupLc == <<"g","o","o","g","l","e"," ","c","a","s","t"," ","g","r","o","u","p">>
LblWebPlayer == <<"W","e","b"," ","P","l","a","y","e","r"," ">>
LblWebPlayerWindows == <<"W","e","b"," ","P","l","a","y","e","r"," ","W","i","n","d","o","w","s"," ">>
LblWebPlayerMacOS == <<"W","e","b"," ","P","l","a","y","e","r"," ","m","a","c","O","S"," ">>
LblWebPlayerLinux == <<"W","e","b"," ","P","l","a","y","e","r"," ","L","i","n","u","x">>
LblWebPlayerIOS == <<"W","e","b"," ","P","l","a","y","e","r"," ","i","O","S"," ">>
LblWebPlayerAndroid == <<"W","e","b"," ","P","l","a","y","e","r"," ","A","n","d","r","o","i","d"," ">>
LblTesla == <<"T","e","s","l","a">>
LblRokuTV == <<"R","o","k","u"," ","T","V">>
LblGoogleCastGroup == <<"G","o","o","g","l","e"," ","C","a","s","t"," ","G","r","o","u","p">>
LblGoogleCast == <<"G","o","o","g","l","e"," ","C","a","s","t">>
LblPartner == <<"P","a","r","t","n","e","r">>
LblWindows == <<"W","i","n","d","o","w","s"," ">>
LblAndroid == <<"A","n","d","r","o","i","d"," ">>
LblIOS == <<"i","O","S"," ">>
LblMacOS == <<"m","a","c","O","S"," ">>
LblLinux == <<"L","i","n","u","x">>

\* A Python value that is None or a str
PyNone   == [none |-> TRUE, s |-> <<>>]
PyStr(s) == [none |-> FALSE, s |-> s]
\* `not x`
Falsy(x) == x.none \/ x.s = <<>>

\* r"windows\s+(\d+)"
PatWindows == <<  <<Lit(StrWindows), Ws1>>  >>
\* r"(?:mac\s*os\s*x|macos)\s+(\d+)"
PatMacWeb == << <<Lit(StrMac), Ws0, Lit(StrOs), Ws0, Lit(StrX), Ws1>>,
                <<Lit(StrMacos), Ws1>> >>
\* r"ios\s+(\d+)"
PatIos == <<  <<Lit(StrIos), Ws1>>  >>
\* r"android\s+(\d+)"
PatAndroid == <<  <<Lit(StrAndroid), Ws1>>  >>
\* r"^Android(?:-tablet)?\s+OS\s+(\d+)"
PatAndroidOs == <<  <<Lit(StrAndroid), Opt(StrTablet), Ws1, Lit(StrOs), Ws1>>  >>
\* r"^(?:Mac\s*OS\s*X|macOS|OS\s*X)\s+(\d+)(?:[\.\s]|$)"
PatMac == << <<Lit(StrMac), Ws0, Lit(StrOs), Ws0, Lit(StrX), Ws1>>,
             <<Lit(StrMacos), Ws1>>,
             <<Lit(StrOs), Ws0, Lit(StrX), Ws1>> >>

\* lines 81-107: the "web_player <os>;browser ..." strings
WebPlayerGroup(p) ==
  LET rest == AfterFirst(p, " ")
      os_token == Strip(BeforeFirst(rest, ";"))
      os_token_l == Lower(os_token)
      cleaned == Strip(StripParens(os_token))
  IN IF ReSearch(PatWindows, os_token_l, "any") # <<>>
       THEN LblWebPlayerWindows \o ReSearch(PatWindows, os_token_l, "any")
     ELSE IF ReSearch(PatMacWeb, os_token_l, "any") # <<>>
       THEN LblWebPlayerMacOS \o ReSearch(PatMacWeb, os_token_l, "any")
     ELSE IF Contains(os_token_l, StrLinux)
       THEN LblWebPlayerLinux
     ELSE IF ReSearch(PatIos, os_token_l, "any") # <<>>
       THEN LblWebPlayerIOS \o ReSearch(PatIos, os_token_l, "any")
     ELSE IF ReSearch(PatAndroid, os_token_l, "any") # <<>>
       THEN LblWebPlayerAndroid \o ReSearch(PatAndroid, os_token_l, "any")
     ELSE LblWebPlayer \o Title(IF cleaned # <<>> THEN cleaned ELSE StrUnknown)

\* lines 110-125: the Partner device strings
PartnerGroup(p) ==
  LET pl == Lower(p)
      cleaned == Strip(StripParens(p))
  IN IF Contains(pl, StrTesla) THEN LblTesla
     ELSE IF Contains(pl, StrRoku) THEN LblRokuTV
     ELSE IF Contains(pl, StrCast)
       THEN (IF Contains(pl, StrGroup) THEN LblGoogleCastGroup ELSE LblGoogleCast)
     ELSE IF cleaned # <<>> THEN cleaned ELSE LblPartner

\* lines 161-182: the second Partner block, by vendor and model
PartnerVendorGroup(p) ==
  LET tail == Strip(From(p, Len(LblPartner) + 1))
      sem_idx == Find(tail, <<";">>)
      prefix == IF sem_idx = 0 THEN tail ELSE SubSeq(tail, 1, sem_idx - 1)
      rest == IF sem_idx = 0 THEN <<>> ELSE From(tail, sem_idx + 1)
      vendor_token == LastToken(Strip(prefix))
      model_field == IF rest # <<>> THEN Strip(BeforeFirst(rest, ";")) ELSE <<>>
      vendor_clean == Strip(Replace(vendor_token, "_", " "))
      model_clean == Strip(Replace(model_field, "_", " "))
      group_vendor == IF vendor_clean # <<>> THEN Title(vendor_clean) ELSE LblPartner
  IN IF Contains(Lower(model_clean), StrGoogleCastGroupLc) THEN LblGoogleCastGroup
     ELSE IF Contains(Lower(vendor_clean), StrGoogleCastLc)
             \/ Contains(Lower(model_clean), StrGoogleCastLc) THEN LblGoogleCast
     ELSE IF model_clean # <<>> THEN group_vendor \o <<" ">> \o model_clean
     ELSE group_vendor

\* line 75-77: strip, drop trailing ")" and the square-bracket metadata
CleanPlatform(s) ==
  Strip(SubSegments(RStripChars(Strip(s), {")"}), 1, "[", "]", <<" ">>))

\* FallbackGroup without `or "Unknown"`
FallbackGroupNoDefault(p) == Strip(StripParens(p))

\* lines 184-186: strip parentheticals and extra whitespace
FallbackGroup(p) ==
  IF Strip(StripParens(p)) # <<>> THEN Strip(StripParens(p)) ELSE StrUnknown

\* lines 81-186: the ordered rules, applied to the cleaned string p
GroupOfCleaned(p) ==
  IF StartsWith(Lower(p), StrWebPlayerUs) \/ StartsWith(Lower(p), StrWebPlayerSp)
    THEN WebPlayerGroup(p)
  ELSE IF StartsWith(Lower(p), StrPartner)
    THEN PartnerGroup(p)
  ELSE IF StartsWith(Lower(p), StrGoogleCastLc)
    THEN LblGoogleCast
  ELSE IF ReMatchI(PatWindows, p, "b") # <<>>
    THEN LblWindows \o ReMatchI(PatWindows, p, "b")
  ELSE IF ReMatchI(PatAndroid, p, "dot") # <<>>
    THEN LblAndroid \o ReMatchI(PatAndroid, p, "dot")
  ELSE IF ReMatchI(PatAndroidOs, p, "any") # <<>>
    THEN LblAndroid \o ReMatchI(PatAndroidOs, p, "any")
  ELSE IF ReMatchI(PatIos, p, "dot") # <<>>
    THEN LblIOS \o ReMatchI(PatIos, p, "dot")
  ELSE IF ReMatchI(PatMac, p, "dot") # <<>>
    THEN LblMacOS \o ReMatchI(PatMac, p, "dot")
  ELSE IF StartsWith(Lower(p), StrLinux)
    THEN LblLinux
  ELSE IF StartsWith(Lower(p), StrPartner)
    THEN PartnerVendorGroup(p)
  ELSE FallbackGroup(p)

normalize_platform_to_group(platform) ==
  IF Falsy(platform) THEN StrUnknown ELSE GroupOfCleaned(CleanPlatform(platform.s))

----------------------------------------------------------------------------
(* History rows.                                                           *)

\* the number of rows a run consumes at most
MaxRecords == 3

\* ms_played as found in the JSON: absent or null, a number, a numeric string,
\* or a value int() raises on
MsNone      == [k |-> "none", v |-> 0]
MsInt(v)    == [k |-> "int", v |-> v]
MsNumStr(v) == [k |-> "numstr", v |-> v]
MsBad       == [k |-> "bad", v |-> 0]

Row(uri, track, artist, album, platform, ms, ts) ==
  [spotify_track_uri |-> uri, master_metadata_track_name |-> track,
   master_metadata_album_artist_name |-> artist,
   master_metadata_album_album_name |-> album,
   platform |-> platform, ms_played |-> ms, ts |-> ts]

U1 == <<"u","1">>
U2 == <<"u","2">>
Ta == <<"a">>
TA == <<"A"," ">>
Tc == <<"c">>
ArtBB == <<"B","a","d"," ","B","u","n","n","y">>
ArtBBu == <<"B","A","D"," ","B","U","N","N","Y">>
ArtOther == <<"z">>
Alb == <<"x">>
Ts2019 == <<"2","0","1","9","-","0","5">>
Ts2020 == <<"2","0","2","0">>
TsShort == <<"2","0","1">>
PlatWin == PyStr(<<"W","i","n","d","o","w","s"," ","1","0"," ","(","U","n","k","n","o","w","n"," ","E","d",")">>)
PlatIos == PyStr(<<"i","O","S"," ","1","4",".","7",".","1"," ","(","i","P","h","o","n","e","1","2",",","3",")">>)
PlatExcluded == PyStr(<<"i","O","S"," ","5",".","1",".","1"," ","(","i","P","o","d","4",",","1",")">>)
\* the excluded string followed by a space: not an exact match
PlatNearExcluded == PyStr(<<"i","O","S"," ","5",".","1",".","1"," ","(","i","P","o","d","4",",","1",")"," ">>)
Long == MsInt(30001)

\* The rows a stream is made of: plays that qualify, of two tracks under several
\* spellings, and the same play with each field in turn missing, short or excluded.
Rows == {
  Row(U1, Ta, ArtBB, Alb, PlatWin, Long, Ts2019),
  Row(U1, Tc, ArtOther, Alb, PlatIos, Long, Ts2020),
  Row(U2, Tc, ArtOther, <<>>, PlatWin, MsNumStr(40000), Ts2019),
  Row(<<>>, Ta, ArtBB, Alb, PlatWin, Long, Ts2019),
  Row(<<>>, TA, ArtBBu, Alb, PlatIos, Long, TsShort),
  Row(<<>>, Ta, <<>>, Alb, PyNone, Long, <<>>),
  Row(<<>>, <<>>, ArtBB, Alb, PlatNearExcluded, Long, Ts2020),
  Row(U1, <<>>, <<>>, <<>>, PlatWin, Long, Ts2019),
  Row(U1, Ta, ArtBB, Alb, PlatWin, MsInt(30000), Ts2019),
  Row(U2, Tc, ArtOther, Alb, PlatWin, MsInt(0), Ts2019),
  Row(<<>>, Ta, ArtBB, Alb, PlatIos, MsNone, Ts2019),
  Row(U2, Ta, ArtBB, Alb, PlatWin, MsBad, Ts2020),
  Row(U1, Ta, ArtBB, Alb, PlatExcluded, Long, Ts2019),
  Row(<<>>, Tc, ArtOther, Alb, PlatExcluded, MsInt(0), Ts2019) }

\* int(row.get("ms_played") or 0) under try/except: 0 when int() raises
ParsedMs(row) ==
  LET ms == row.ms_played
  IN CASE ms.k = "none"   -> 0
       [] ms.k = "int"    -> ms.v
       [] ms.k = "numstr" -> ms.v
       [] ms.k = "bad"    -> 0

\* TooShort with the comparison made strict: a play of exactly 30000 ms counts
TooShortStrict(row) == ParsedMs(row) < 30000

\* `ms_played <= 30000`: the play is too short to count
TooShort(row) == ParsedMs(row) <= 30000

\* PlatformExcluded testing the lowercased string against the set
PlatformExcludedLower(row) ==
  ~row.platform.none /\ Lower(row.platform.s) \in EXCLUDED_PLATFORMS_EXACT

\* `platform in EXCLUDED_PLATFORMS_EXACT` for platform = row.get("platform")
PlatformExcluded(row) ==
  ~row.platform.none /\ row.platform.s \in EXCLUDED_PLATFORMS_EXACT

extract_year(ts) == IF ts = <<>> \/ Len(ts) < 4 THEN StrUnknown ELSE SubSeq(ts, 1, 4)

\* the display name of build_track_key_and_name
TrackDisplay(row) ==
  LET uri == row.spotify_track_uri
      track == row.master_metadata_track_name
      artist == row.master_metadata_album_artist_name
  IN IF track # <<>> /\ artist # <<>> THEN track \o StrDash \o artist
     ELSE IF track # <<>> THEN track
     ELSE IF uri # <<>> THEN uri
     ELSE StrUnknownTrack

\* TrackKey ignoring the uri: the key is always made of the display text
TrackKeyFromText(row) == StrNamePrefix \o TrackDisplay(row)

\* TrackKey with the text of an id-less key trimmed and lowercased
TrackKeyNormalized(row) ==
  IF row.spotify_track_uri # <<>> THEN row.spotify_track_uri
  ELSE StrNamePrefix \o Lower(Strip(TrackDisplay(row)))

\* the key of build_track_key_and_name
TrackKey(row) ==
  IF row.spotify_track_uri # <<>> THEN row.spotify_track_uri
  ELSE StrNamePrefix \o TrackDisplay(row)

build_track_key_and_name(row) == [key |-> TrackKey(row), display |-> TrackDisplay(row)]

\* f"{(title or '').strip().lower()}||{(artist or '').strip().lower()}"
_normalize_key(title, artist) == Lower(Strip(title)) \o <<"|","|">> \o Lower(Strip(artist))

----------------------------------------------------------------------------
(* Dictionaries: a dict is a function on the set of its keys.              *)

EmptyDict == <<>>
\* d[k] = v
Put(d, k, v) == IF k \in DOMAIN d THEN [d EXCEPT ![k] = v] ELSE d @@ (k :> v)
\* Inc adding 2
IncTwice(d, k) == IF k \in DOMAIN d THEN [d EXCEPT ![k] = @ + 2] ELSE d @@ (k :> 2)
\* d[k] += 1 on a defaultdict(int)
Inc(d, k) == IF k \in DOMAIN d THEN [d EXCEPT ![k] = @ + 1] ELSE d @@ (k :> 1)
\* Inc2 adding 2
Inc2Twice(d, a, b) ==
  IF a \in DOMAIN d THEN [d EXCEPT ![a] = IncTwice(@, b)] ELSE d @@ (a :> IncTwice(EmptyDict, b))
\* d[a][b] += 1 on a defaultdict of defaultdict(int)
Inc2(d, a, b) ==
  IF a \in DOMAIN d THEN [d EXCEPT ![a] = Inc(@, b)] ELSE d @@ (a :> Inc(EmptyDict, b))
\* d.get(k, default)
Get(d, k, default) == IF k \in DOMAIN d THEN d[k] ELSE default

----------------------------------------------------------------------------
(* The main loops.  Each action is one iteration of `for row in            *)
(* iter_history_records(folder)`; LoopEnd is the exhaustion of the stream. *)

Consume(row) == n < MaxRecords /\ n' = n + 1 /\ last' = <<row>>

\* SetDisplay as setdefault: the first display of a key is kept
SetDisplayIfAbsent(d, key, name) == IF key \in DOMAIN d THEN d ELSE Put(d, key, name)

\* track_display[song_key] = song_name
SetDisplay(d, key, name) == Put(d, key, name)

\* history_top_by_year.py, lines 118-146
ByYearRow(row) ==
  /\ script = "by_year" /\ pc = "stream"
  /\ Consume(row)
  /\ IF PlatformExcluded(row) \/ TooShort(row)
     THEN UNCHANGED <<track_display, byYearVars>>
     ELSE LET year == extract_year(row.ts)
              song == build_track_key_and_name(row)
              artist_name == IF row.master_metadata_album_artist_name # <<>>
                             THEN row.master_metadata_album_artist_name
                             ELSE StrUnknownArtist
              album_name == IF row.master_metadata_album_album_name # <<>>
                            THEN row.master_metadata_album_album_name
                            ELSE StrUnknownAlbum
          IN /\ track_display' = SetDisplay(track_display, song.key, song.display)
             /\ song_counts_by_year' = Inc2(song_counts_by_year, year, song.key)
             /\ artist_counts_by_year' = Inc2(artist_counts_by_year, year, artist_name)
             /\ global_song_counts' = Inc(global_song_counts, song.key)
             /\ global_artist_counts' = Inc(global_artist_counts, artist_name)
             /\ artist_album_counts' = Inc2(artist_album_counts, artist_name, album_name)
             /\ artist_song_counts' = Inc2(artist_song_counts, artist_name, song.key)
  /\ UNCHANGED <<script, pc, groupedVars, platformVars, wipeVars, indexVars, playlistVars,
                 iterVars, callVars>>

\* order.append(x) unless x was seen
AppendNew(order, x) == IF x \in Range(order) THEN order ELSE Append(order, x)

\* row.get("platform") or "Unknown"
PlatformOrUnknown(row) == IF Falsy(row.platform) THEN StrUnknown ELSE row.platform.s

\* Hardcoded group exclusions: the set is empty in the source
EXCLUDED_GROUPS == {}

\* history_top_songs_by_platform_grouped.py, lines 221-240
GroupedRow(row) ==
  /\ script = "grouped" /\ pc = "stream"
  /\ Consume(row)
  /\ LET platform == PlatformOrUnknown(row)
         group == normalize_platform_to_group(PyStr(platform))
         song == build_track_key_and_name(row)
     IN IF platform \in EXCLUDED_PLATFORMS_EXACT
           \/ Lower(group) \in {Lower(g) : g \in EXCLUDED_GROUPS}
        THEN UNCHANGED <<track_display, groupedVars, wipeVars>>
        ELSE /\ group_order' = AppendNew(group_order, group)
             /\ track_display' = SetDisplay(track_display, song.key, song.display)
             /\ group_to_counts' = Inc2(group_to_counts, group, song.key)
  /\ UNCHANGED <<script, pc, byYearVars, platformVars, wipeVars, indexVars, playlistVars,
                 iterVars, callVars>>

\* history_top_songs_by_platform.py, lines 82-90
PlatformRow(row) ==
  /\ script = "platform" /\ pc = "stream"
  /\ Consume(row)
  /\ LET platform == PlatformOrUnknown(row)
         song == build_track_key_and_name(row)
     IN /\ platform_order' = AppendNew(platform_order, platform)
        /\ track_display' = SetDisplay(track_display, song.key, song.display)
        /\ platform_to_counts' = Inc2(platform_to_counts, platform, song.key)
  /\ UNCHANGED <<script, pc, byYearVars, groupedVars, wipeVars, indexVars, playlistVars,
                 iterVars, callVars>>

\* the stream is exhausted and the loop ends
LoopEnd ==
  /\ script \in {"by_year", "grouped", "platform", "playlist"} /\ pc = "stream"
  /\ pc' = "report"
  /\ UNCHANGED <<script, n, last, track_display, byYearVars, groupedVars, platformVars, wipeVars,
                 indexVars, playlistVars, iterVars, callVars>>

----------------------------------------------------------------------------
(* count_bad_bunny_playlist_plays.py: the playlist index and the main loop *)

\* the number of playlist items fetch_playlist_tracks reads at most
MaxCatalog == 2

\* an item of a page of sp.playlist_items: has_track is FALSE when the item
\* carries no track; lead is the name of artists[0], empty without artists
Item(has_track, uri, name, lead) ==
  [has_track |-> has_track, uri |-> uri, name |-> name, lead |-> lead]

TaDashB == <<"a"," ","-"," ","b">>
TbDashC == <<"b"," ","-"," ","c">>

PlaylistItems == {
  Item(TRUE, U1, Ta, ArtBB),
  Item(TRUE, U2, TA, ArtBBu),
  Item(TRUE, U2, Tc, ArtOther),
  Item(TRUE, U1, TaDashB, Tc),
  Item(TRUE, U2, Ta, TbDashC),
  Item(TRUE, U1, <<>>, <<>>),
  Item(TRUE, <<>>, Ta, ArtBB),
  Item(FALSE, <<>>, <<>>, <<>>) }

\* track.get("name") or uri
ItemName(it) == IF it.name # <<>> THEN it.name ELSE it.uri
\* f"{name} - {lead_artist}" if lead_artist else name
ItemDisplay(it) ==
  IF it.lead # <<>> THEN ItemName(it) \o StrDash \o it.lead ELSE ItemName(it)
ItemKey(it) == _normalize_key(ItemName(it), it.lead)

\* RegisterKey without the `key not in` test: a later track replaces the entry
RegisterKeyOverwrite(d, key, display) == IF key # <<>> THEN Put(d, key, display) ELSE d

\* lines 99-100: if key and key not in name_artist_key_to_display: ...[key] = display
RegisterKey(d, key, display) ==
  IF key # <<>> /\ key \notin DOMAIN d THEN Put(d, key, display) ELSE d
\* RegisterDisplay registering nothing
RegisterDisplayNever(d, display, key) == d

\* lines 101-102: if display and key: display_to_key[display] = key
RegisterDisplay(d, display, key) ==
  IF display # <<>> /\ key # <<>> THEN Put(d, display, key) ELSE d

\* fetch_playlist_tracks, lines 84-102: one item of a page
FetchItem(it) ==
  /\ script = "playlist" /\ pc = "fetch"
  /\ fetched < MaxCatalog
  /\ fetched' = fetched + 1
  /\ last' = <<it>>
  /\ IF ~it.has_track \/ it.uri = <<>>
     THEN UNCHANGED <<uri_to_display, uri_set, key_to_display, display_to_key>>
     ELSE /\ uri_set' = uri_set \cup {it.uri}
          /\ uri_to_display' = Put(uri_to_display, it.uri, ItemDisplay(it))
          /\ key_to_display' = RegisterKey(key_to_display, ItemKey(it), ItemDisplay(it))
          /\ display_to_key' = RegisterDisplay(display_to_key, ItemDisplay(it), ItemKey(it))
  /\ UNCHANGED <<script, pc, n, track_display, byYearVars, groupedVars,
                 platformVars, wipeVars, playlistVars, iterVars, callVars>>

\* fetch_playlist_tracks, lines 103-106: the last page was read
FetchDone ==
  /\ script = "playlist" /\ pc = "fetch"
  /\ pc' = "stream"
  /\ UNCHANGED <<script, n, last, track_display, byYearVars, groupedVars, platformVars, wipeVars,
                 indexVars, playlistVars, iterVars, callVars>>

\* Old criteria: lead artist names considered as "Bad Bunny"
OLD_CRITERIA_ARTIST_NAMES == { <<"B","a","d"," ","B","u","n","n","y">> }

\* lines 205-206: the stripped lead artist matches a name, case-insensitively
OldCriteria(row) ==
  LET lead_artist == Strip(row.master_metadata_album_artist_name)
  IN lead_artist # <<>>
     /\ \E name \in OLD_CRITERIA_ARTIST_NAMES : Lower(lead_artist) = Lower(name)

\* MatchKind without the fallback by title and artist
MatchKindUriOnly(row) ==
  LET uri == row.spotify_track_uri
  IN IF uri # <<>> /\ uri \in uri_set THEN "uri" ELSE "none"

\* MatchKind trying the text key before the uri
MatchKindTextFirst(row) ==
  LET uri == row.spotify_track_uri
      nk == _normalize_key(row.master_metadata_track_name,
                           row.master_metadata_album_artist_name)
  IN IF nk # <<>> /\ nk \in DOMAIN key_to_display THEN "text"
     ELSE IF uri # <<>> /\ uri \in uri_set THEN "uri"
     ELSE "none"

\* lines 177-193: how the row matches the playlist: "uri", "text" or "none"
MatchKind(row) ==
  LET uri == row.spotify_track_uri
      nk == _normalize_key(row.master_metadata_track_name,
                           row.master_metadata_album_artist_name)
  IN IF uri # <<>> /\ uri \in uri_set THEN "uri"
     ELSE IF nk # <<>> /\ nk \in DOMAIN key_to_display THEN "text"
     ELSE "none"

\* lines 181 and 189: the display name the row is counted under
DisplayKey(row) ==
  LET uri == row.spotify_track_uri
      nk == _normalize_key(row.master_metadata_track_name,
                           row.master_metadata_album_artist_name)
  IN IF MatchKind(row) = "uri" THEN Get(uri_to_display, uri, uri)
     ELSE key_to_display[nk]

\* lines 192-193: record mapping for later exclusion matching
RegisterFallback(d, display_key, nk) ==
  IF display_key # <<>> /\ display_key \notin DOMAIN d THEN Put(d, display_key, nk) ELSE d

\* main, lines 165-209
PlaylistRow(row) ==
  /\ script = "playlist" /\ pc = "stream"
  /\ Consume(row)
  /\ IF PlatformExcluded(row) \/ TooShort(row) \/ MatchKind(row) = "none"
     THEN UNCHANGED <<display_to_key, song_counts_by_year, playlistVars>>
     ELSE LET display_key == DisplayKey(row)
              nk == _normalize_key(row.master_metadata_track_name,
                                   row.master_metadata_album_artist_name)
              year == extract_year(row.ts)
          IN /\ display_to_key' = IF MatchKind(row) = "text"
                                  THEN RegisterFallback(display_to_key, display_key, nk)
                                  ELSE display_to_key
             /\ song_counts' = Inc(song_counts, display_key)
             /\ total_plays' = total_plays + 1
             /\ song_counts_by_year' = Inc2(song_counts_by_year, year, display_key)
             /\ song_counts_old' = IF OldCriteria(row) /\ display_key # <<>>
                                   THEN Inc(song_counts_old, display_key)
                                   ELSE song_counts_old
  /\ UNCHANGED <<script, pc, track_display, artist_counts_by_year, global_song_counts,
                 global_artist_counts, artist_album_counts, artist_song_counts,
                 groupedVars, platformVars, wipeVars, fetched, uri_to_display, uri_set,
                 key_to_display, iterVars, callVars>>

----------------------------------------------------------------------------
(* The scripts: one run of one of them.                                    *)

Scripts == {"by_year", "grouped", "platform", "playlist"}

\* no row was consumed and every dict of the main loops is empty
InitLoops ==
  /\ n = 0
  /\ last = <<>>
  /\ track_display = EmptyDict
  /\ song_counts_by_year = EmptyDict
  /\ artist_counts_by_year = EmptyDict
  /\ global_song_counts = EmptyDict
  /\ global_artist_counts = EmptyDict
  /\ artist_album_counts = EmptyDict
  /\ artist_song_counts = EmptyDict
  /\ group_to_counts = EmptyDict
  /\ group_order = <<>>
  /\ platform_to_counts = EmptyDict
  /\ platform_order = <<>>
  /\ fetched = 0
  /\ uri_to_display = EmptyDict
  /\ uri_set = {}
  /\ key_to_display = EmptyDict
  /\ display_to_key = EmptyDict
  /\ song_counts = EmptyDict
  /\ song_counts_old = EmptyDict
  /\ total_plays = 0

\* the generator was not called
InitIter ==
  /\ folder = EmptyDict
  /\ files = <<>>
  /\ file_idx = 0
  /\ yielded = <<>>
  /\ raised = FALSE

\* no function is under test
InitCall ==
  /\ call_args = <<>>
  /\ call_ret = <<>>

\* wipe_playlist was not called
InitRemote ==
  /\ playlist = <<>>
  /\ depth = 0

Init ==
  /\ InitRemote
  /\ script \in Scripts
  /\ pc = IF script = "playlist" THEN "fetch" ELSE "stream"
  /\ InitLoops
  /\ InitIter
  /\ InitCall

Next ==
  \/ \E row \in Rows : ByYearRow(row)
  \/ \E row \in Rows : GroupedRow(row)
  \/ \E row \in Rows : PlatformRow(row)
  \/ \E it \in PlaylistItems : FetchItem(it)
  \/ FetchDone
  \/ \E row \in Rows : PlaylistRow(row)
  \/ LoopEnd

Spec == Init /\ [][Next]_vars

----------------------------------------------------------------------------
(* Properties of the main loops, checked under Spec.                       *)

\* every dict and counter a main loop aggregates into
Buckets == <<track_display, byYearVars, groupedVars, platformVars, playlistVars>>

\* the step is one iteration of the main loop of one of the scripts S
LoopStep(S) == script \in S /\ pc = "stream" /\ n' = n + 1

\* the row's duration is at most 30000 ms, a missing or unparsable one being 0
DurationAtMost30000(row) ==
  row.ms_played.k \in {"none", "bad"} \/ row.ms_played.v <= 30000

\* the row's raw platform is one of the exact exclusions
ExactlyExcluded(row) ==
  ~row.platform.none /\ row.platform.s \in EXCLUDED_PLATFORMS_EXACT

\* some count of the by-year, grouped or platform loop changes in the step
CountedStep ==
  \/ global_song_counts' # global_song_counts
  \/ group_to_counts' # group_to_counts
  \/ platform_to_counts' # platform_to_counts

MatchesTwoEntries(row) ==
  LET uri == row.spotify_track_uri
      nk == _normalize_key(row.master_metadata_track_name,
                           row.master_metadata_album_artist_name)
  IN /\ ~ExactlyExcluded(row) /\ ~DurationAtMost30000(row)
     /\ uri # <<>> /\ uri \in uri_set /\ uri \in DOMAIN uri_to_display
     /\ nk \in DOMAIN key_to_display
     /\ key_to_display[nk] # uri_to_display[uri]

\* the display name of the entry the row's uri belongs to
EntryByUri(row) == uri_to_display[row.spotify_track_uri]
\* the display name of the entry the row's title and artist belong to
EntryByText(row) ==
  key_to_display[_normalize_key(row.master_metadata_track_name,
                                row.master_metadata_album_artist_name)]

\* C3: a qualifying row whose uri is in the playlist (entry A) and whose
\* normalized title||artist key maps to a different entry B is counted under
\* A's display name, and B's count is unchanged.
C3_UriMatchWins ==
  [][LoopStep({"playlist"}) /\ MatchesTwoEntries(last'[1])
       => /\ song_counts' = Inc(song_counts, EntryByUri(last'[1]))
          /\ Get(song_counts', EntryByText(last'[1]), 0)
               = Get(song_counts, EntryByText(last'[1]), 0)]_vars

\* the latest row matched A by uri and B by text; A has a count and B has none
C3_Witness ==
  /\ script = "playlist" /\ pc = "stream" /\ n >= 1
  /\ MatchesTwoEntries(last[1])
  /\ Get(song_counts, EntryByUri(last[1]), 0) >= 1
  /\ EntryByText(last[1]) \notin DOMAIN song_counts

IndexStep ==
  /\ script = "playlist" /\ pc = "fetch" /\ fetched' = fetched + 1
  /\ last'[1].has_track /\ last'[1].uri # <<>>

\* no entry of the dict d is removed or replaced in the step to e
Kept(d, e) == \A k \in DOMAIN d : k \in DOMAIN e /\ e[k] = d[k]

\* C7 as stated: while fetch_playlist_tracks builds the index, the normalized
\* key -> display mapping keeps the entry of the first track of a key, and the
\* display -> key mapping keeps the first key written for a display name.
C7_FirstWriterWinsBoth ==
  [][script = "playlist" /\ pc = "fetch"
       => Kept(key_to_display, key_to_display') /\ Kept(display_to_key, display_to_key')]_vars

\* C7 amended: the normalized key -> display mapping keeps the entry of the
\* first track of a key; the display -> key mapping holds, for a display name,
\* the key of the last track written under that display name.
C7_FirstKeyLastDisplay ==
  [][IndexStep
       => /\ Kept(key_to_display, key_to_display')
          /\ ItemKey(last'[1]) \in DOMAIN key_to_display'
          /\ ItemKey(last'[1]) \notin DOMAIN key_to_display
               => key_to_display'[ItemKey(last'[1])] = ItemDisplay(last'[1])
          /\ ItemDisplay(last'[1]) \in DOMAIN display_to_key'
          /\ display_to_key'[ItemDisplay(last'[1])] = ItemKey(last'[1])]_vars

\* the second track reduced to the key of the first under another display: the
\* key still shows the first display, and the second display maps to the key
C7_Witness ==
  /\ script = "playlist" /\ pc = "fetch" /\ fetched = 2
  /\ last[1] = Item(TRUE, U2, TA, ArtBBu)
  /\ ItemKey(last[1]) \in DOMAIN key_to_display
  /\ key_to_display[ItemKey(last[1])] = ItemDisplay(Item(TRUE, U1, Ta, ArtBB))
  /\ ItemDisplay(last[1]) \in DOMAIN display_to_key
  /\ display_to_key[ItemDisplay(last[1])] = ItemKey(last[1])

----------------------------------------------------------------------------
(* build_track_key_and_name and _normalize_key as functions under test:    *)
(* one call on each of two rows.                                            *)

KeyUris == {<<>>, U1, U2}
KeyTracks == {<<>>, Ta, TA, TaDashB}
KeyArtists == {<<>>, Tc, <<"C">>, TbDashC}
KeyRows ==
  {Row(uri, track, artist, Alb, PyNone, Long, Ts2019) :
     uri \in KeyUris, track \in KeyTracks, artist \in KeyArtists}

InitKey ==
  /\ InitRemote
  /\ script = "keys" /\ pc = "call"
  /\ InitLoops /\ InitIter
  /\ call_args \in KeyRows \X KeyRows
  /\ call_ret = <<>>

\* key, display = build_track_key_and_name(row) and nk = _normalize_key(title,
\* artist) for both rows
KeyCall ==
  /\ script = "keys" /\ pc = "call"
  /\ call_ret' = [i \in 1..2 |->
                    [key |-> build_track_key_and_name(call_args[i]).key,
                     display |-> build_track_key_and_name(call_args[i]).display,
                     nk |-> _normalize_key(call_args[i].master_metadata_track_name,
                                           call_args[i].master_metadata_album_artist_name)]]
  /\ pc' = "return"
  /\ UNCHANGED <<script, n, last, track_display, byYearVars, groupedVars, platformVars, wipeVars,
                 indexVars, playlistVars, iterVars, call_args>>

NextKey == KeyCall

SpecKey == InitKey /\ [][NextKey]_vars

\* both rows lack a track identifier
BothIdless ==
  call_args[1].spotify_track_uri = <<>> /\ call_args[2].spotify_track_uri = <<>>

\* C4: two rows with the same non-empty spotify_track_uri get the same key from
\* build_track_key_and_name, whatever their title and artist text.
C4_SameUriSameKey ==
  (pc = "return" /\ call_args[1].spotify_track_uri # <<>>
     /\ call_args[1].spotify_track_uri = call_args[2].spotify_track_uri)
    => call_ret[1].key = call_ret[2].key

\* two rows with the same uri and different title and artist text got one key
C4_Witness ==
  /\ script = "keys" /\ pc = "return"
  /\ call_args[1].spotify_track_uri = U1 /\ call_args[2].spotify_track_uri = U1
  /\ call_ret[1].display # call_ret[2].display
  /\ call_ret[1].nk # call_ret[2].nk
  /\ call_ret[1].key = call_ret[2].key

----------------------------------------------------------------------------
(* normalize_platform_to_group as a function under test.                   *)

PlatformHeads == {
  <<>>,
  <<" ">>,
  <<"W","i","n","d","o","w","s">>,
  <<"w","i","n","d","o","w","s">>,
  <<"i","O","S">>,
  <<"A","n","d","r","o","i","d">>,
  <<"A","n","d","r","o","i","d"," ","O","S">>,
  <<"A","n","d","r","o","i","d","-","t","a","b","l","e","t"," ","O","S">>,
  <<"M","a","c"," ","O","S"," ","X">>,
  <<"m","a","c","O","S">>,
  <<"O","S"," ","X">>,
  <<"w","e","b","_","p","l","a","y","e","r"," ","w","i","n","d","o","w","s">>,
  <<"w","e","b","_","p","l","a","y","e","r">>,
  <<"W","e","b"," ","P","l","a","y","e","r"," ","l","i","n","u","x">>,
  <<"P","a","r","t","n","e","r">>,
  <<"P","a","r","t","n","e","r"," ","s","o","n","o","s","_","i","m","x","6"," ","S","o","n","o","s",";","P","l","a","y">>,
  <<"G","o","o","g","l","e"," ","C","a","s","t">>,
  <<"L","i","n","u","x">>,
  <<"(","x",")">>,
  <<"[","a","r","m"," ","2","]">>,
  <<"G","a","r","m","i","n">> }

PlatformTails == {
  <<>>,
  <<" ">>,
  <<" ","1","0">>,
  <<" ","1","4",".","7",".","1">>,
  <<"1","0">>,
  <<" ","(","U","n","k","n","o","w","n"," ","E","d",")">>,
  <<")">>,
  <<" ","1","0",";","c","h","r","o","m","e"," ","8","7">>,
  <<" ","x">>,
  <<" ","9","x">>,
  <<" ","8","(","x",")">> }

\* the examples of the docstring and strings the Partner and fallback rules decide
ExAndroidOs == <<"A","n","d","r","o","i","d"," ","O","S"," ","6",".","0",".","1"," ","A","P","I"," ","2","3",")">>
ExWindows == <<"W","i","n","d","o","w","s"," ","1","0"," ","(","U","n","k","n","o","w","n"," ","E","d",")">>
ExMacOsX == <<"M","a","c"," ","O","S"," ","X"," ","1","3",".","6",".","9"," ","(","x","8","6","_","6","4",")">>
ExWebLinux == <<"w","e","b","_","p","l","a","y","e","r"," ","l","i","n","u","x"," ",";","f","i","r","e","f","o","x"," ","6","2">>
ExFooBar == <<"F","o","o"," ","(","b","a","r",")">>
ExFooBarBaz == <<"F","o","o"," ","(","b","a","r",")"," ","b","a","z">>
ExPartnerTesla == <<"P","a","r","t","n","e","r"," ","(","x",")"," ","t","e","s","l","a"," ","r","o","k","u">>
ExPartnerRoku == <<"P","a","r","t","n","e","r"," ","r","o","k","u"," ","c","a","s","t"," ","g","r","o","u","p">>
ExPartnerCastGroup == <<"P","a","r","t","n","e","r"," ","c","a","s","t"," ","g","r","o","u","p">>
ExPartnerCast == <<"P","a","r","t","n","e","r"," ","C","a","s","t"," ","(","x",")"," ","y">>
ExPartnerFoo == <<"P","a","r","t","n","e","r"," ","f","o","o"," ","(","x",")">>
PlatformExamples ==
  {ExAndroidOs, ExWindows, ExMacOsX, ExWebLinux, ExFooBar, ExFooBarBaz,
   ExPartnerTesla, ExPartnerRoku, ExPartnerCastGroup, ExPartnerCast, ExPartnerFoo}

\* None, every head followed by every tail, and the examples
PlatformInputs ==
  {PyNone} \cup {PyStr(h \o t) : h \in PlatformHeads, t \in PlatformTails}
           \cup {PyStr(e) : e \in PlatformExamples}

InitClassify ==
  /\ InitRemote
  /\ script = "classify" /\ pc = "call"
  /\ InitLoops /\ InitIter
  /\ call_args \in PlatformInputs
  /\ call_ret = <<>>

\* group = normalize_platform_to_group(platform)
ClassifyCall ==
  /\ script = "classify" /\ pc = "call"
  /\ call_ret' = <<normalize_platform_to_group(call_args)>>
  /\ pc' = "return"
  /\ UNCHANGED <<script, n, last, track_display, byYearVars, groupedVars, platformVars, wipeVars,
                 indexVars, playlistVars, iterVars, call_args>>

NextClassify == ClassifyCall

SpecClassify == InitClassify /\ [][NextClassify]_vars

\* C10: for every input string and for None, normalize_platform_to_group returns
\* a non-empty label, and the label is "Unknown" for the empty string and None.
C10_LabelNeverEmpty ==
  pc = "return"
    => /\ call_ret[1] # <<>>
       /\ (call_args.none \/ call_args.s = <<>>) => call_ret[1] = StrUnknown

\* a string that no rule matches and that is empty once its brackets and
\* parentheses are removed was classified
C10_Witness ==
  /\ script = "classify" /\ pc = "return"
  /\ ~call_args.none /\ call_args.s # <<>> /\ Strip(call_args.s) # <<>>
  /\ call_ret[1] = StrUnknown

----------------------------------------------------------------------------
(* iter_history_records.  A file is the sequence of its lines, a line being *)
(* one of:                                                                  *)
(*   "blank"  whitespace only                                               *)
(*   "obj"    a JSON object                                                 *)
(*   "arr"    a JSON array of two objects                                   *)
(*   "open"   the bracket [ alone                                           *)
(*   "close"  the bracket ] alone                                           *)
(*   "bad"    text json.loads raises on                                     *)
(*   "undec"  bytes that are not UTF-8                                      *)
(* A yielded record is named by the file, the line and, for an element of   *)
(* an array on one line, its position in the array.                         *)

\* the number of lines of a file at most
MaxLines == 2
\* the number of files of the folder at most
MaxFiles == 2

LineKinds == {"blank", "obj", "arr", "open", "close", "bad", "undec"}

RECURSIVE SeqsUpTo(_, _)
\* the sequences over S of length at most k
SeqsUpTo(S, k) ==
  IF k = 0 THEN {<<>>}
  ELSE LET shorter == SeqsUpTo(S, k - 1)
       IN shorter \cup {Append(q, x) : q \in shorter, x \in S}

FileContents == SeqsUpTo(LineKinds, MaxLines)

\* file names without their .json suffix
FileNames == {<<"1">>, <<"1","0">>, <<"2">>}

DigitOrder == <<"0","1","2","3","4","5","6","7","8","9">>
Ord(c) == CHOOSE i \in 1..Len(DigitOrder) : DigitOrder[i] = c

RECURSIVE StrLess(_, _)
\* a < b for Python strings
StrLess(a, b) ==
  IF b = <<>> THEN FALSE
  ELSE IF a = <<>> THEN TRUE
  ELSE IF Ord(Head(a)) # Ord(Head(b)) THEN Ord(Head(a)) < Ord(Head(b))
  ELSE StrLess(Tail(a), Tail(b))

RECURSIVE Sorted(_)
\* sorted(S) for a set of strings
Sorted(S) ==
  IF S = {} THEN <<>>
  ELSE LET least == CHOOSE x \in S : \A y \in S \ {x} : StrLess(x, y)
       IN <<least>> \o Sorted(S \ {least})

Rec(name, line, elem) == [file |-> name, line |-> line, elem |-> elem]

\* the indices of the lines of c that are not blank, in order
NonBlank(c) == SelectSeq([i \in 1..Len(c) |-> i], LAMBDA i : c[i] # "blank")

\* f.read() raises UnicodeDecodeError
Undecodable(c) == \E i \in 1..Len(c) : c[i] = "undec"

\* json.load(f): what the text of the whole file parses to
\*   [ok |-> FALSE]: json.load raises; otherwise is_list and the elements
WholeFile(name, c) ==
  LET nb == NonBlank(c)
      kinds == [j \in 1..Len(nb) |-> c[nb[j]]]
  IN IF Undecodable(c) THEN [ok |-> FALSE, is_list |-> FALSE, rows |-> <<>>]
     ELSE IF kinds = <<"arr">>
       THEN [ok |-> TRUE, is_list |-> TRUE,
             rows |-> <<Rec(name, nb[1], 1), Rec(name, nb[1], 2)>>]
     ELSE IF kinds = <<"open", "close">>
       THEN [ok |-> TRUE, is_list |-> TRUE, rows |-> <<>>]
     ELSE IF kinds = <<"open", "obj", "close">>
       THEN [ok |-> TRUE, is_list |-> TRUE, rows |-> <<Rec(name, nb[2], 0)>>]
     ELSE IF kinds = <<"obj">>
       THEN [ok |-> TRUE, is_list |-> FALSE, rows |-> <<>>]
     ELSE [ok |-> FALSE, is_list |-> FALSE, rows |-> <<>>]

\* json.loads(line) returns for the stripped line
LineParses(kind) == kind \in {"obj", "arr"}

\* the fallback loop over the first k lines: the lines that parse, in order
LineRecords(name, c, k) ==
  LET idx == SelectSeq([i \in 1..k |-> i], LAMBDA i : LineParses(c[i]))
  IN [j \in 1..Len(idx) |-> Rec(name, idx[j], 0)]

\* the index of the first line that does not decode
FirstUndecodable(c) == Min({i \in 1..Len(c) : c[i] = "undec"})

InitFolder ==
  /\ InitRemote
  /\ script = "iter" /\ pc = "glob"
  /\ InitLoops /\ InitCall
  /\ \E names \in SUBSET FileNames :
       /\ Cardinality(names) \in 1..MaxFiles
       /\ folder \in [names -> FileContents]
  /\ files = <<>>
  /\ file_idx = 0
  /\ yielded = <<>>
  /\ raised = FALSE

\* files = sorted(glob.glob(pattern))
IterStart ==
  /\ script = "iter" /\ pc = "glob"
  /\ files' = Sorted(DOMAIN folder)
  /\ pc' = "files"
  /\ UNCHANGED <<script, n, last, track_display, byYearVars, groupedVars, platformVars, wipeVars,
                 indexVars, playlistVars, folder, file_idx, yielded, raised, callVars>>

\* one iteration of `for path in files`, once the consumer has taken every row
\* it yields.  In text that does not decode, the read of the fallback loop
\* raises in the buffer that holds the bad bytes: the lines of the buffers
\* before it, any number of the lines above the bad one, are yielded first.
IterFile ==
  /\ script = "iter" /\ pc = "files" /\ file_idx < Len(files)
  /\ LET name == files[file_idx + 1]
         c == folder[name]
         data == WholeFile(name, c)
     IN IF data.ok
        THEN /\ yielded' = IF data.is_list THEN yielded \o data.rows ELSE yielded
             /\ UNCHANGED <<raised, pc>>
        ELSE IF Undecodable(c)
        THEN /\ \E k \in 0..(FirstUndecodable(c) - 1) :
                  yielded' = yielded \o LineRecords(name, c, k)
             /\ raised' = TRUE
             /\ pc' = "raised"
        ELSE /\ yielded' = yielded \o LineRecords(name, c, Len(c))
             /\ UNCHANGED <<raised, pc>>
  /\ file_idx' = file_idx + 1
  /\ UNCHANGED <<script, n, last, track_display, byYearVars, groupedVars, platformVars, wipeVars,
                 indexVars, playlistVars, folder, files, callVars>>

\* the loop over the files ends and the generator returns
IterDone ==
  /\ script = "iter" /\ pc = "files" /\ file_idx = Len(files)
  /\ pc' = "done"
  /\ UNCHANGED <<script, n, last, track_display, byYearVars, groupedVars, platformVars, wipeVars,
                 indexVars, playlistVars, iterVars, callVars>>

NextIter == IterStart \/ IterFile \/ IterDone

SpecIter == InitFolder /\ [][NextIter]_vars

\* the file parses as a whole to a JSON array
WellFormedArray(c) == WholeFile(<<>>, c).ok /\ WholeFile(<<>>, c).is_list

\* the file does not decode, or neither the file nor any of its lines parses
Corrupted(c) ==
  \/ Undecodable(c)
  \/ ~WholeFile(<<>>, c).ok /\ \A i \in 1..Len(c) : c[i] \notin {"obj", "arr"}

\* the file is made of JSON objects, one per line, possibly with blank lines
\* and lines that do not parse in between
LineDelimited(c) ==
  /\ \A i \in 1..Len(c) : c[i] \in {"obj", "blank", "bad"}
  /\ \E i \in 1..Len(c) : c[i] = "obj"

\* the records of y follow the order of the file names and, within a file, the
\* order of the lines and of the elements
InFileOrder(y) ==
  \A i, j \in 1..Len(y) :
    i < j => \/ StrLess(y[i].file, y[j].file)
             \/ /\ y[i].file = y[j].file
                /\ \/ y[i].line < y[j].line
                   \/ y[i].line = y[j].line /\ y[i].elem < y[j].elem

\* C8: no exception escapes the generator, and the stream of a folder of
\* well-formed JSON-array files and corrupted files is made of exactly the
\* elements of the well-formed files, in file name order and in-file order.
C8_CorruptedFileContributesNothing ==
  /\ ~raised
  /\ (pc = "done" /\ \A f \in DOMAIN folder :
                       WellFormedArray(folder[f]) \/ Corrupted(folder[f]))
       => /\ InFileOrder(yielded)
          /\ Range(yielded) =
               UNION {Range(WholeFile(f, folder[f]).rows) :
                        f \in {g \in DOMAIN folder : WellFormedArray(folder[g])}}

\* C9: of a file of newline-delimited JSON objects, of one line or more, every
\* line that parses is yielded as one record, in line order, and nothing else.
C9_EveryParsedLineYielded ==
  pc = "done"
    => \A f \in DOMAIN folder :
         LineDelimited(folder[f])
           => SelectSeq(yielded, LAMBDA r : r.file = f)
                = LET idx == SelectSeq([i \in 1..Len(folder[f]) |-> i],
                                       LAMBDA i : folder[f][i] = "obj")
                  IN [j \in 1..Len(idx) |-> Rec(f, idx[j], 0)]

----------------------------------------------------------------------------
(* Properties of the platform classifier, checked under SpecClassify.      *)

\* the cleaned string of the call: trimmed, without trailing ")" and without
\* [...] segments
Cleaned == CleanPlatform(call_args.s)

\* the classifier returned for a string that is not empty
Classified == script = "classify" /\ pc = "return" /\ ~Falsy(call_args)

\* p is a web-player, Partner or Google Cast string
SpecialString(p) ==
  \/ StartsWith(Lower(p), StrWebPlayerUs) \/ StartsWith(Lower(p), StrWebPlayerSp)
  \/ StartsWith(Lower(p), StrPartner)
  \/ StartsWith(Lower(p), StrGoogleCastLc)

\* the OS families: the label, the keyword and what the source wants after the
\* digits ("b": no letter, digit or underscore; "dot": a dot, whitespace or the
\* end; "any": nothing)
OsFamilies ==
  << [label |-> LblWindows, pats |-> PatWindows,   after |-> "b"],
     [label |-> LblAndroid, pats |-> PatAndroid,   after |-> "dot"],
     [label |-> LblAndroid, pats |-> PatAndroidOs, after |-> "any"],
     [label |-> LblIOS,     pats |-> PatIos,       after |-> "dot"],
     [label |-> LblMacOS,   pats |-> PatMac,       after |-> "dot"] >>

\* the positions of p where a version starts right after the family keyword
VersionStart(pats, p) ==
  {j \in UNION {MatchEnds(pats[a], Lower(p), 1) : a \in 1..Len(pats)} : DigitRun(p, j) >= 1}

\* the first run of digits after the keyword
Major(pats, p) ==
  LET j == Min(VersionStart(pats, p)) IN SubSeq(p, j, j + DigitRun(p, j) - 1)

\* the character of p at position k, if any, delimits the version
VersionDelimited(p, k, after) ==
  \/ after = "any"
  \/ k > Len(p)
  \/ after = "b" /\ p[k] \notin WordSet
  \/ after = "dot" /\ p[k] \in WhiteSpace \cup {"."}

\* the four examples of the claim
C11_Examples ==
  /\ call_args.s = ExAndroidOs => call_ret[1] = LblAndroid \o <<"6">>
  /\ call_args.s = ExWindows => call_ret[1] = LblWindows \o <<"1","0">>
  /\ call_args.s = ExMacOsX => call_ret[1] = LblMacOS \o <<"1","3">>
  /\ call_args.s = ExWebLinux => call_ret[1] = LblWebPlayerLinux

\* C11 as stated: a string that is not a web-player, Partner or Google Cast
\* string and starts with an OS family keyword followed by a version is
\* classified "<Family> <major>", major being the first run of digits after the
\* keyword; the four examples give the labels of the claim.
C11_FamilyAndMajor ==
  Classified
    => /\ C11_Examples
       /\ ~SpecialString(Cleaned)
            => \A f \in 1..Len(OsFamilies) :
                 VersionStart(OsFamilies[f].pats, Cleaned) # {}
                   => call_ret[1] = OsFamilies[f].label \o Major(OsFamilies[f].pats, Cleaned)

\* C11 amended: the same, for the strings whose first run of digits is
\* delimited as the family wants: for Windows not followed by a letter, a digit
\* or an underscore; for "Android N", iOS and macOS followed by a dot, by
\* whitespace or by the end of the string; for "Android OS N" followed by
\* anything.  The string is taken trimmed, without trailing ")" and without
\* [...] segments.
C11_FamilyAndDelimitedMajor ==
  Classified
    => /\ C11_Examples
       /\ ~SpecialString(Cleaned)
            => \A f \in 1..Len(OsFamilies) :
                 LET starts == VersionStart(OsFamilies[f].pats, Cleaned)
                 IN (/\ starts # {}
                     /\ VersionDelimited(Cleaned, Min(starts) + DigitRun(Cleaned, Min(starts)),
                                         OsFamilies[f].after))
                      => call_ret[1] = OsFamilies[f].label
                                         \o Major(OsFamilies[f].pats, Cleaned)

\* "Android OS 6.0.1 API 23)" was classified "Android 6"
C11_Witness ==
  /\ Classified
  /\ call_args.s = ExAndroidOs
  /\ call_ret[1] = LblAndroid \o <<"6">>

\* none of the web-player, Partner, Google Cast, OS family and Linux rules
\* matches p
NoRuleMatches(p) ==
  /\ ~SpecialString(p)
  /\ \A f \in 1..Len(OsFamilies) :
       ReMatchI(OsFamilies[f].pats, p, OsFamilies[f].after) = <<>>
  /\ ~StartsWith(Lower(p), StrLinux)

\* the string s trimmed, with its [...] segments, every parenthetical segment
\* and the ")" left over at its end removed
WithoutParentheticals(s) ==
  Strip(RStripChars(Strip(StripParens(SubSegments(Strip(s), 1, "[", "]", <<" ">>))), {")"}))

\* C12: a string that matches none of the rules is returned with every
\* parenthetical segment removed and trimmed, or as "Unknown" if nothing
\* remains; "Foo (bar)" gives "Foo".
C12_FallbackStripsParentheticals ==
  (Classified /\ NoRuleMatches(Cleaned))
    => /\ call_ret[1] = IF WithoutParentheticals(call_args.s) = <<>> THEN StrUnknown
                        ELSE WithoutParentheticals(call_args.s)
       /\ call_args.s = ExFooBar => call_ret[1] = <<"F","o","o">>

\* the label the Partner rule gives a string, as the claim words it: the
\* first of "tesla", "roku", "cast" with "group", "cast" that the string
\* contains, else the string without its parenthetical detail, else "Partner"
PartnerLabel(s) ==
  LET pl == Lower(CleanPlatform(s))
  IN IF Contains(pl, StrTesla) THEN LblTesla
     ELSE IF Contains(pl, StrRoku) THEN LblRokuTV
     ELSE IF Contains(pl, StrCast) /\ Contains(pl, StrGroup) THEN LblGoogleCastGroup
     ELSE IF Contains(pl, StrCast) THEN LblGoogleCast
     ELSE IF WithoutParentheticals(s) = <<>> THEN LblPartner
     ELSE WithoutParentheticals(s)

\* C13: a string that begins with "partner", in any case, is classified by the
\* first Partner rule, in the order Tesla, Roku TV, Google Cast Group, Google
\* Cast, else the string without parenthetical detail or "Partner"; the
\* vendor/model block of lines 160-182 never decides the label.
C13_PartnerRule ==
  (Classified /\ StartsWith(Lower(Cleaned), StrPartner))
    => call_ret[1] = PartnerLabel(call_args.s)

----------------------------------------------------------------------------
(* The top-N lists of the reports. A bucket is the list of the items() of  *)
(* a dict, in the order the keys were first inserted; sort() and sorted()  *)
(* are stable.                                                              *)

MaxItems == 3

CodeOrder == <<" ", "(", ")", "-">> \o DigitOrder \o UpperLetters \o LowerLetters
Code(c) == CHOOSE i \in 1..Len(CodeOrder) : CodeOrder[i] = c

RECURSIVE PyLess(_, _)
\* a < b for Python strings of these characters
PyLess(a, b) ==
  IF b = <<>> THEN FALSE
  ELSE IF a = <<>> THEN TRUE
  ELSE IF Code(Head(a)) # Code(Head(b)) THEN Code(Head(a)) < Code(Head(b))
  ELSE PyLess(Tail(a), Tail(b))

\* sorted(items, key=...) where less[i, j] is key(items[i]) < key(items[j]):
\* equal keys keep the order they have in items
StableSort(items, less) ==
  LET Precedes(i, j) == less[i, j] \/ (~less[j, i] /\ i < j)
      Rank(i) == 1 + Cardinality({j \in DOMAIN items : j # i /\ Precedes(j, i)})
  IN [r \in DOMAIN items |-> items[CHOOSE i \in DOMAIN items : Rank(i) = r]]

\* s[:k]
Take(s, k) == SubSeq(s, 1, IF Len(s) < k THEN Len(s) ELSE k)

\* key=lambda kv: (-kv[1], track_display.get(kv[0], kv[0]))
SongKeyLess(display, a, b) ==
  \/ a.cnt > b.cnt
  \/ a.cnt = b.cnt /\ PyLess(Get(display, a.key, a.key), Get(display, b.key, b.key))

\* key=lambda kv: (-kv[1], kv[0])
ArtistKeyLess(a, b) == a.cnt > b.cnt \/ (a.cnt = b.cnt /\ PyLess(a.key, b.key))

\* key=lambda x: -x[1]
MsKeyLess(a, b) == a.cnt > b.cnt

\* the rows of a table: the displayed name and the count of each item
RowsOf(items, display) ==
  [i \in DOMAIN items |-> <<Get(display, items[i].key, items[i].key), items[i].cnt>>]

KeyB == <<"b","1">>
KeyA == <<"a","2">>
KeyG == <<"c","3">>
KeyA2 == <<"a","4">>
NameBeta == <<"B","e","t","a">>
NameAlpha == <<"A","l","p","h","a">>
NameGamma == <<"G","a","m","m","a">>
RankKeys == {KeyB, KeyA, KeyG, KeyA2}
\* track_display (uri_to_name in history_top_from_folder.py) of the inputs
RankDisplay == (KeyB :> NameBeta) @@ (KeyA :> NameAlpha) @@ (KeyG :> NameGamma)
                 @@ (KeyA2 :> NameAlpha)
RankCounts == {5, 7}

\* the buckets of at most MaxItems keys, in every order of insertion
RankBuckets ==
  {b \in SeqsUpTo([key : RankKeys, cnt : RankCounts], MaxItems) :
     \A i, j \in DOMAIN b : i # j => b[i].key # b[j].key}

InitRank ==
  /\ InitRemote
  /\ script = "rank" /\ pc = "call"
  /\ InitLoops /\ InitIter
  /\ call_args \in RankBuckets
  /\ call_ret = <<>>

\* history_top_by_year.py, the song tables
RankSongs ==
  /\ script = "rank" /\ pc = "call"
  /\ pc' = "songs"
  /\ LET less == [i, j \in DOMAIN call_args |->
                     SongKeyLess(RankDisplay, call_args[i], call_args[j])]
     IN call_ret' = <<RowsOf(Take(StableSort(call_args, less), 100), RankDisplay)>>
  /\ UNCHANGED <<script, n, last, track_display, byYearVars, groupedVars, platformVars, wipeVars,
                 indexVars, playlistVars, iterVars, call_args>>

\* history_top_by_year.py, the artist tables: the key is the displayed name
RankArtists ==
  /\ script = "rank" /\ pc = "call"
  /\ pc' = "artists"
  /\ LET less == [i, j \in DOMAIN call_args |-> ArtistKeyLess(call_args[i], call_args[j])]
     IN call_ret' = <<RowsOf(Take(StableSort(call_args, less), 100), EmptyDict)>>
  /\ UNCHANGED <<script, n, last, track_display, byYearVars, groupedVars, platformVars, wipeVars,
                 indexVars, playlistVars, iterVars, call_args>>

\* history_top_from_folder.py
RankFolder ==
  /\ script = "rank" /\ pc = "call"
  /\ pc' = "folder"
  /\ LET less == [i, j \in DOMAIN call_args |-> MsKeyLess(call_args[i], call_args[j])]
     IN call_ret' = <<RowsOf(Take(StableSort(call_args, less), 50), RankDisplay)>>
  /\ UNCHANGED <<script, n, last, track_display, byYearVars, groupedVars, platformVars, wipeVars,
                 indexVars, playlistVars, iterVars, call_args>>

NextRank == RankSongs \/ RankArtists \/ RankFolder

SpecRank == InitRank /\ [][NextRank]_vars

\* rows are by descending count and, among equal counts, by ascending name
RankedByCountThenName(rows) ==
  \A i, j \in DOMAIN rows :
    i < j => \/ rows[i][2] > rows[j][2]
             \/ rows[i][2] = rows[j][2] /\ ~PyLess(rows[j][1], rows[i][1])

\* C14: every top-N list of every script is ordered by descending count (or
\* summed duration) and, among equal counts, by ascending display name; two
\* songs "Beta" and "Alpha" with 5 plays each rank "Alpha" first.
C14_RankedByCountThenName ==
  (script = "rank" /\ pc # "call") => RankedByCountThenName(call_ret[1])

\* the same for the lists of history_top_by_year.py alone
C14_ByYearRanked ==
  (script = "rank" /\ pc \in {"songs", "artists"}) => RankedByCountThenName(call_ret[1])

----------------------------------------------------------------------------
(* compute_gini and the flatness of an artist. A float is modelled by the  *)
(* exact fraction [num, den] with den > 0 that the expression denotes.     *)

MaxCounts == 4

Frac(a, b) == [num |-> a, den |-> b]
\* a float literal or an int converted to float
FracOf(k) == Frac(k, 1)
FracSub(x, y) == Frac(x.num * y.den - y.num * x.den, x.den * y.den)
FracMul(x, y) == Frac(x.num * y.num, x.den * y.den)
FracLess(x, y) == x.num * y.den < y.num * x.den
FracEq(x, y) == x.num * y.den = y.num * x.den
FracMin(x, y) == IF FracLess(y, x) THEN y ELSE x
FracMax(x, y) == IF FracLess(x, y) THEN y ELSE x

RECURSIVE SumSeq(_)
\* sum(s)
SumSeq(s) == IF s = <<>> THEN 0 ELSE Head(s) + SumSeq(Tail(s))

RECURSIVE WeightedSum(_, _)
\* cum after the loop "for i, x in enumerate(arr, start=1): cum += i * x",
\* where k is the i of the first element of arr
WeightedSum(arr, k) ==
  IF arr = <<>> THEN 0 ELSE k * Head(arr) + WeightedSum(Tail(arr), k + 1)

\* arr.sort() for a list of ints
SortInts(arr) == StableSort(arr, [i, j \in DOMAIN arr |-> arr[i] < arr[j]])
IsPositive(c) == c > 0

\* compute_gini with the line arr.sort() left out
compute_giniUnsorted(counts) ==
  LET arr == SelectSeq(counts, IsPositive)
      len == Len(arr)
      cum == WeightedSum(arr, 1)
      total == SumSeq(arr)
  IN IF len = 0 THEN FracOf(0)
     ELSE IF total = 0 THEN FracOf(0)
     ELSE FracMax(FracOf(0), FracMin(FracOf(1),
            FracSub(Frac(2 * cum, len * total), Frac(len + 1, len))))

\* compute_gini with arr = list(counts) in place of the filter c > 0
compute_giniKeepZeros(counts) ==
  LET arr == counts
      len == Len(arr)
      cum == WeightedSum(SortInts(arr), 1)
      total == SumSeq(arr)
  IN IF len = 0 THEN FracOf(0)
     ELSE IF total = 0 THEN FracOf(0)
     ELSE FracMax(FracOf(0), FracMin(FracOf(1),
            FracSub(Frac(2 * cum, len * total), Frac(len + 1, len))))

compute_gini(counts) ==
  LET arr == SelectSeq(counts, IsPositive)
      len == Len(arr)
      cum == WeightedSum(SortInts(arr), 1)
      total == SumSeq(arr)
  IN IF len = 0 THEN FracOf(0)
     ELSE IF total = 0 THEN FracOf(0)
     ELSE FracMax(FracOf(0), FracMin(FracOf(1),
            FracSub(Frac(2 * cum, len * total), Frac(len + 1, len))))

\* flatness with the factor diversity left out
flatnessNoDiversity(counts) ==
  FracSub(FracOf(1), compute_gini(counts))

\* lines 194-198 and 250-252: num_songs, g, diversity, flatness
flatness(counts) ==
  LET num_songs == Len(SelectSeq(counts, IsPositive))
      g == compute_gini(counts)
      diversity == IF num_songs > 1 THEN FracSub(FracOf(1), Frac(1, num_songs))
                   ELSE FracOf(0)
  IN FracMul(FracSub(FracOf(1), g), diversity)

CountValues == {0, 1, 2, 5, 100}
CountLists == SeqsUpTo(CountValues, MaxCounts)

InitGini ==
  /\ InitRemote
  /\ script = "gini" /\ pc = "call"
  /\ InitLoops /\ InitIter
  /\ call_args \in CountLists
  /\ call_ret = <<>>

\* g = compute_gini(counts)
GiniCall ==
  /\ script = "gini" /\ pc = "call"
  /\ pc' = "gini"
  /\ call_ret' = <<compute_gini(call_args)>>
  /\ UNCHANGED <<script, n, last, track_display, byYearVars, groupedVars, platformVars, wipeVars,
                 indexVars, playlistVars, iterVars, call_args>>

\* the header line of one of the top 10 artists (lines 191-201)
ArtistHeader ==
  /\ script = "gini" /\ pc = "call"
  /\ pc' = "header"
  /\ call_ret' = <<flatness(call_args)>>
  /\ UNCHANGED <<script, n, last, track_display, byYearVars, groupedVars, platformVars, wipeVars,
                 indexVars, playlistVars, iterVars, call_args>>

\* one turn of the loop of lines 244-254: an artist without a positive count
\* is skipped, another one is appended to artist_flatness
ArtistFlatness ==
  /\ script = "gini" /\ pc = "call"
  /\ pc' = "table"
  /\ call_ret' = IF Len(SelectSeq(call_args, IsPositive)) = 0 \/ SumSeq(call_args) = 0
                 THEN <<>>
                 ELSE <<flatness(call_args)>>
  /\ UNCHANGED <<script, n, last, track_display, byYearVars, groupedVars, platformVars, wipeVars,
                 indexVars, playlistVars, iterVars, call_args>>

NextGini == GiniCall \/ ArtistHeader \/ ArtistFlatness

SpecGini == InitGini /\ [][NextGini]_vars

----------------------------------------------------------------------------
(* Properties of compute_gini and of the flatness, checked under SpecGini. *)

GiniReturned == script = "gini" /\ pc = "gini"

CountOf(s, v) == Cardinality({i \in DOMAIN s : s[i] = v})
PositiveValues(counts) == {counts[i] : i \in DOMAIN counts} \ {0}
NumPositive(counts) == Cardinality({i \in DOMAIN counts : counts[i] > 0})

\* the strictly positive values of counts in ascending order
AscendingPositives(counts) ==
  CHOOSE s \in [1..NumPositive(counts) -> PositiveValues(counts)] :
    /\ \A i, j \in DOMAIN s : i < j => s[i] <= s[j]
    /\ \A v \in PositiveValues(counts) : CountOf(s, v) = CountOf(counts, v)

\* (2*cum)/(n*total) - (n+1)/n over the ascending positive values
ClosedForm(counts) ==
  LET s == AscendingPositives(counts)
      len == Len(s)
      cum == SumSeq([i \in 1..len |-> i * s[i]])
      total == SumSeq(s)
  IN FracSub(Frac(2 * cum, len * total), Frac(len + 1, len))

Reordered(counts, p) == [i \in DOMAIN counts |-> counts[p[i]]]

\* C15: compute_gini is the closed form over the ascending positive values,
\* lies in [0, 1], is 0 for the empty list, for one positive value and for
\* equal positive values, and depends neither on the order of the list nor
\* on the zeros in it.
C15_GiniClosedForm ==
  GiniReturned =>
    LET g == call_ret[1]
        counts == call_args
    IN /\ NumPositive(counts) > 0 => FracEq(g, ClosedForm(counts))
       /\ ~FracLess(g, FracOf(0)) /\ ~FracLess(FracOf(1), g)
       /\ (counts = <<>> \/ Cardinality(PositiveValues(counts)) <= 1) => FracEq(g, FracOf(0))
       /\ \A p \in Permutations(DOMAIN counts) : FracEq(compute_gini(Reordered(counts, p)), g)
       /\ FracEq(compute_gini(SelectSeq(counts, IsPositive)), g)
       /\ FracEq(compute_gini(<<0>> \o counts), g)

\* a list with a zero and with positive values out of order was measured
C15_Witness ==
  /\ GiniReturned
  /\ \E i, j, k \in DOMAIN call_args :
       i < j /\ call_args[i] > call_args[j] /\ call_args[j] > 0 /\ call_args[k] = 0
  /\ FracLess(FracOf(0), call_ret[1])

\* the closed form for one item that holds all plays among len items
MaxGini(len) ==
  FracSub(Frac(2 * (len * 100), len * 100), Frac(len + 1, len))

\* C16 as stated: compute_gini([100, 0, 0, 0]) is the maximum of the closed
\* form for n = 4, the value for one item holding all plays among four.
C16_OneOfFourIsMaximal ==
  (GiniReturned /\ call_args = <<100, 0, 0, 0>>) => FracEq(call_ret[1], MaxGini(4))

\* C16: a list with one positive value gives 0, the value of the closed form
\* for n = 1, however many zeros it holds; compute_gini([100, 0, 0, 0]) is 0.
C16_OnePositiveAmongZerosIsZero ==
  (GiniReturned /\ NumPositive(call_args) = 1)
    => FracEq(call_ret[1], FracOf(0)) /\ FracEq(call_ret[1], MaxGini(1))

C16_Witness ==
  GiniReturned /\ call_args = <<100, 0, 0, 0>> /\ FracEq(call_ret[1], FracOf(0))

FlatnessComputed == script = "gini" /\ pc \in {"header", "table"} /\ call_ret # <<>>

\* C17: the flatness is exactly 0 when fewer than two counts are strictly
\* positive, and it is at least 0 and less than 1 for every list.
C17_FlatnessRange ==
  FlatnessComputed =>
    /\ NumPositive(call_args) < 2 => call_ret[1].num = 0
    /\ ~FracLess(call_ret[1], FracOf(0))
    /\ FracLess(call_ret[1], FracOf(1))

\* the loop of lines 244-254 computed the flatness of an artist with one song
C17_Witness ==
  /\ script = "gini" /\ pc = "table"
  /\ NumPositive(call_args) = 1
  /\ call_ret # <<>> /\ call_ret[1].num = 0

----------------------------------------------------------------------------
(* The consistency table of history_top_by_year.py (lines 222-239). The    *)
(* stream starts in the state a run of earlier plays of one song has left, *)
(* so that a year can hold more plays than the cap; n and last follow the  *)
(* rows consumed from there on.                                             *)

CONSISTENCY_CAP_PER_YEAR == 10

RECURSIVE SumValues(_)
\* sum(d.values())
SumValues(d) ==
  IF DOMAIN d = {} THEN 0
  ELSE LET k == CHOOSE k \in DOMAIN d : TRUE
       IN d[k] + SumValues([x \in DOMAIN d \ {k} |-> d[x]])

RECURSIVE SetToSeq(_)
\* the elements of a finite set, listed once each
SetToSeq(S) ==
  IF S = {} THEN <<>>
  ELSE LET x == CHOOSE x \in S : TRUE IN <<x>> \o SetToSeq(S \ {x})

MinInt(a, b) == IF a < b THEN a ELSE b

\* song_year_counts after the loops of lines 225-227
SongYearCounts(by_year) ==
  LET keys == UNION {DOMAIN by_year[year] : year \in DOMAIN by_year}
  IN [song_key \in keys |->
        [year \in {y \in DOMAIN by_year : song_key \in DOMAIN by_year[y]} |->
           by_year[year][song_key]]]

\* min(cnt, CONSISTENCY_CAP_PER_YEAR) for cnt in year_map.values()
CappedValues(year_map) ==
  [year \in DOMAIN year_map |-> MinInt(year_map[year], CONSISTENCY_CAP_PER_YEAR)]

\* ScoreTuple with score = sum(year_map.values()): no cap
ScoreTupleUncapped(song_key, year_map) ==
  <<song_key, SumValues(year_map), Cardinality(DOMAIN year_map), SumValues(year_map)>>

\* (song_key, score, years_active, total) of lines 231-234
ScoreTuple(song_key, year_map) ==
  <<song_key, SumValues(CappedValues(year_map)), Cardinality(DOMAIN year_map),
    SumValues(year_map)>>

\* key=lambda x: (-x[1], -x[2], -x[3], track_display.get(x[0], x[0]))
ConsistencyKeyLess(display, x, y) ==
  \/ x[2] > y[2]
  \/ x[2] = y[2] /\ x[3] > y[3]
  \/ x[2] = y[2] /\ x[3] = y[3] /\ x[4] > y[4]
  \/ /\ x[2] = y[2] /\ x[3] = y[3] /\ x[4] = y[4]
     /\ PyLess(Get(display, x[1], x[1]), Get(display, y[1], y[1]))

\* consistency_scores after the sort of line 236
ConsistencyScores(by_year, display) ==
  LET song_year_counts == SongYearCounts(by_year)
      scores == SetToSeq({ScoreTuple(k, song_year_counts[k]) : k \in DOMAIN song_year_counts})
      less == [i, j \in DOMAIN scores |-> ConsistencyKeyLess(display, scores[i], scores[j])]
  IN StableSort(scores, less)

Year2019 == <<"2","0","1","9">>
Year2020 == <<"2","0","2","0">>
Year2021 == <<"2","0","2","1">>

\* year -> number of earlier plays of the song U1, without the years of no play
EarlierPlays(c19, c20, c21) ==
  LET all == (Year2019 :> c19) @@ (Year2020 :> c20) @@ (Year2021 :> c21)
  IN [year \in {y \in DOMAIN all : all[y] > 0} |-> all[year]]

EarlierPlaysSet ==
  {EarlierPlays(c19, c20, c21) : c19 \in {0, 9, 15}, c20 \in {0, 3}, c21 \in {0, 40}}

\* the rows of the rest of the stream
ConsistencyRows == {
  Row(U1, Ta, ArtBB, Alb, PlatWin, Long, Ts2019),
  Row(U1, Tc, ArtOther, Alb, PlatIos, Long, Ts2020),
  Row(U2, Tc, ArtOther, <<>>, PlatWin, MsNumStr(40000), Ts2019),
  Row(U1, Ta, ArtBB, Alb, PlatWin, MsInt(30000), Ts2019),
  Row(<<>>, Ta, <<>>, Alb, PyNone, Long, <<>>) }

\* the state after plays[year] rows Row(U1, Ta, ArtBB, Alb, PlatWin, Long, year)
\* for each year
InitConsistency ==
  /\ InitRemote
  /\ script = "by_year" /\ pc = "stream"
  /\ InitIter /\ InitCall
  /\ n = 0 /\ last = <<>>
  /\ group_to_counts = EmptyDict /\ group_order = <<>>
  /\ platform_to_counts = EmptyDict /\ platform_order = <<>>
  /\ fetched = 0 /\ uri_to_display = EmptyDict /\ uri_set = {}
  /\ key_to_display = EmptyDict /\ display_to_key = EmptyDict
  /\ song_counts = EmptyDict /\ song_counts_old = EmptyDict /\ total_plays = 0
  /\ \E plays \in EarlierPlaysSet :
       LET total == SumValues(plays)
           One(k) == IF total = 0 THEN EmptyDict ELSE (k :> total)
       IN /\ song_counts_by_year = [year \in DOMAIN plays |-> (U1 :> plays[year])]
          /\ artist_counts_by_year = [year \in DOMAIN plays |-> (ArtBB :> plays[year])]
          /\ global_song_counts = One(U1)
          /\ global_artist_counts = One(ArtBB)
          /\ artist_album_counts = IF total = 0 THEN EmptyDict ELSE (ArtBB :> One(Alb))
          /\ artist_song_counts = IF total = 0 THEN EmptyDict ELSE (ArtBB :> One(U1))
          /\ track_display = IF total = 0 THEN EmptyDict
                             ELSE (U1 :> Ta \o StrDash \o ArtBB)

\* the years of line 149, with "Unknown" whether it has a play or not
ReportYearsWithUnknown(by_year) == DOMAIN by_year \cup {StrUnknown}

\* line 149: sorted(song_counts_by_year.keys()), as a set
ReportYears(by_year) == DOMAIN by_year

\* a defaultdict of dicts after the lookups d[k] for k in keys: a key that is
\* missing is inserted with an empty dict
Looked(d, keys) ==
  [k \in DOMAIN d \cup keys |-> IF k \in DOMAIN d THEN d[k] ELSE EmptyDict]

\* lines 149-160: the tables of each year; song_counts_by_year[year] and
\* artist_counts_by_year[year] are lookups on defaultdicts
YearTables ==
  /\ script = "by_year" /\ pc = "report"
  /\ pc' = "global"
  /\ song_counts_by_year' = Looked(song_counts_by_year, ReportYears(song_counts_by_year))
  /\ artist_counts_by_year' = Looked(artist_counts_by_year, ReportYears(song_counts_by_year))
  /\ UNCHANGED <<script, n, last, track_display, global_song_counts, global_artist_counts,
                 artist_album_counts, artist_song_counts, groupedVars, platformVars, wipeVars,
                 indexVars, playlistVars, iterVars, callVars>>

\* lines 162-172: the global tables, read through items() and track_display.get
GlobalTables ==
  /\ script = "by_year" /\ pc = "global"
  /\ pc' = "artists"
  /\ UNCHANGED <<script, n, last, track_display, byYearVars, groupedVars, platformVars, wipeVars,
                 indexVars, playlistVars, iterVars, callVars>>

\* lines 190-220: the tables of the top 10 artists, read through
\* global_artist_counts.get, artist_song_counts.get and artist_album_counts.get
ArtistTables ==
  /\ script = "by_year" /\ pc = "artists"
  /\ pc' = "consistency"
  /\ UNCHANGED <<script, n, last, track_display, byYearVars, groupedVars, platformVars, wipeVars,
                 indexVars, playlistVars, iterVars, callVars>>

\* lines 222-239: the consistency table; song_year_counts is a dict of its own
ConsistencyReport ==
  /\ script = "by_year" /\ pc = "consistency"
  /\ pc' = "flatness"
  /\ call_ret' = <<ConsistencyScores(song_counts_by_year, track_display)>>
  /\ UNCHANGED <<script, n, last, track_display, byYearVars, groupedVars, platformVars, wipeVars,
                 indexVars, playlistVars, iterVars, call_args>>

\* lines 243-264: the flatness tables, read through artist_song_counts.items()
FlatnessTables ==
  /\ script = "by_year" /\ pc = "flatness"
  /\ pc' = "done"
  /\ UNCHANGED <<script, n, last, track_display, byYearVars, groupedVars, platformVars, wipeVars,
                 indexVars, playlistVars, iterVars, callVars>>

NextConsistency ==
  \/ \E row \in ConsistencyRows : ByYearRow(row)
  \/ LoopEnd
  \/ YearTables
  \/ GlobalTables
  \/ ArtistTables
  \/ ConsistencyReport
  \/ FlatnessTables

SpecConsistency == InitConsistency /\ [][NextConsistency]_vars

\* the tuples of the consistency table
Reported == IF script = "by_year" /\ pc = "done" THEN Range(call_ret[1]) ELSE {}

YearsOf(song_key) ==
  {year \in DOMAIN song_counts_by_year : song_key \in DOMAIN song_counts_by_year[year]}

CountInYear(song_key) == [year \in YearsOf(song_key) |-> song_counts_by_year[year][song_key]]

\* C18: after the stream, each song has score = sum over its years of
\* min(count in year, 10), yearsActive = the number of year buckets that hold
\* it, totalPlays = the sum of its per-year counts = its global count, and
\* yearsActive <= score <= min(totalPlays, 10 * yearsActive); the counts
\* {2019: 15, 2020: 3, 2021: 40} give 23, 3 and 58.
C18_ConsistencyScore ==
  (script = "by_year" /\ pc = "done") =>
    /\ {t[1] : t \in Reported} = DOMAIN global_song_counts
    /\ Len(call_ret[1]) = Cardinality(DOMAIN global_song_counts)
    /\ \A t \in Reported :
         LET counts == CountInYear(t[1])
             capped == [year \in DOMAIN counts |->
                          IF counts[year] > 10 THEN 10 ELSE counts[year]]
         IN /\ t[2] = SumValues(capped)
            /\ t[3] = Cardinality(YearsOf(t[1]))
            /\ t[4] = SumValues(counts)
            /\ t[4] = global_song_counts[t[1]]
            /\ t[3] <= t[2]
            /\ t[2] <= t[4] /\ t[2] <= 10 * t[3]
            /\ counts = (Year2019 :> 15) @@ (Year2020 :> 3) @@ (Year2021 :> 40)
                 => t[2] = 23 /\ t[3] = 3 /\ t[4] = 58

\* the song with the counts {2019: 15, 2020: 3, 2021: 40} was scored, next to
\* a second song
C18_Witness ==
  /\ script = "by_year" /\ pc = "done"
  /\ <<U1, 23, 3, 58>> \in Reported
  /\ Cardinality(Reported) = 2

----------------------------------------------------------------------------
(* Properties of the catalog-scoped and of the by-year main loop, checked  *)
(* under Spec.                                                              *)

\* the row is long enough and not on an excluded platform
Qualifies(row) == ~ExactlyExcluded(row) /\ ~DurationAtMost30000(row)

\* the row's uri is in the playlist, or its normalized title||artist key is
MatchesCatalog(row) ==
  \/ row.spotify_track_uri # <<>> /\ row.spotify_track_uri \in uri_set
  \/ _normalize_key(row.master_metadata_track_name,
                    row.master_metadata_album_artist_name) \in DOMAIN key_to_display

\* C19: in count_bad_bunny_playlist_plays a row is counted if and only if it
\* qualifies and matches the playlist by uri or by normalized title||artist
\* key; any other row leaves song_counts, song_counts_by_year,
\* song_counts_old and total_plays unchanged.
C19_CountedIffMatched ==
  [][LoopStep({"playlist"}) =>
       LET row == last'[1]
           counted == total_plays' = total_plays + 1
       IN /\ counted <=> (Qualifies(row) /\ MatchesCatalog(row))
          /\ counted => \E k \in DOMAIN song_counts' : song_counts' = Inc(song_counts, k)
          /\ ~(Qualifies(row) /\ MatchesCatalog(row))
               => UNCHANGED <<song_counts, song_counts_by_year, song_counts_old,
                              total_plays>>]_vars

\* with a playlist fetched and one play counted, the latest row qualified and
\* matched nothing
C19_Witness ==
  /\ script = "playlist" /\ pc = "stream" /\ n >= 2
  /\ uri_set # {} /\ key_to_display # EmptyDict
  /\ Qualifies(last[1]) /\ ~MatchesCatalog(last[1])
  /\ total_plays = 1

\* d2 is d with the entry k one higher, an absent entry counting as 0
OneMore(d, d2, k) ==
  /\ DOMAIN d2 = DOMAIN d \cup {k}
  /\ \A x \in DOMAIN d2 : d2[x] = Get(d, x, 0) + (IF x = k THEN 1 ELSE 0)

\* d2 is d with the entry b of the dict under a one higher
OneMoreIn(d, d2, a, b) ==
  /\ DOMAIN d2 = DOMAIN d \cup {a}
  /\ \A x \in DOMAIN d2 :
       IF x = a THEN OneMore(Get(d, a, EmptyDict), d2[a], b) ELSE d2[x] = d[x]

\* the sum of all counts of a dict of dicts
TotalIn(d) == SumValues([a \in DOMAIN d |-> SumValues(d[a])])

\* C20: in history_top_by_year a qualifying row adds exactly 1 to exactly one
\* entry of each of the six buckets, under the year made of the first four
\* characters of ts ("Unknown" if ts is absent or shorter), the artist
\* ("(Unknown Artist)" if missing) and the album ("(Unknown Album)" if
\* missing); any other row changes none; so the totals of the six buckets are
\* equal after every prefix of the stream.
C20_OneEntryPerBucket ==
  [][LoopStep({"by_year"}) =>
       LET row == last'[1]
           year == IF Len(row.ts) < 4 THEN StrUnknown ELSE SubSeq(row.ts, 1, 4)
           artist == IF row.master_metadata_album_artist_name = <<>>
                     THEN StrUnknownArtist ELSE row.master_metadata_album_artist_name
           album == IF row.master_metadata_album_album_name = <<>>
                    THEN StrUnknownAlbum ELSE row.master_metadata_album_album_name
       IN /\ Qualifies(row) =>
               \E key \in DOMAIN global_song_counts' :
                 /\ OneMoreIn(song_counts_by_year, song_counts_by_year', year, key)
                 /\ OneMoreIn(artist_counts_by_year, artist_counts_by_year', year, artist)
                 /\ OneMore(global_song_counts, global_song_counts', key)
                 /\ OneMore(global_artist_counts, global_artist_counts', artist)
                 /\ OneMoreIn(artist_album_counts, artist_album_counts', artist, album)
                 /\ OneMoreIn(artist_song_counts, artist_song_counts', artist, key)
          /\ ~Qualifies(row) => UNCHANGED byYearVars
          /\ \A total \in {TotalIn(song_counts_by_year'), TotalIn(artist_counts_by_year'),
                           SumValues(global_artist_counts'), TotalIn(artist_album_counts'),
                           TotalIn(artist_song_counts')} :
               total = SumValues(global_song_counts')
          /\ SumValues(global_song_counts')
               = SumValues(global_song_counts) + (IF Qualifies(row) THEN 1 ELSE 0)]_vars

\* after a play without ts, a play without artist and album was counted
C20_Witness ==
  /\ script = "by_year" /\ pc = "stream" /\ n = 2
  /\ Qualifies(last[1])
  /\ last[1].master_metadata_album_artist_name = <<>>
  /\ last[1].master_metadata_album_album_name = <<>>
  /\ StrUnknown \in DOMAIN song_counts_by_year
  /\ StrUnknownArtist \in DOMAIN artist_album_counts
  /\ StrUnknownAlbum \in DOMAIN artist_album_counts[StrUnknownArtist]
  /\ SumValues(global_song_counts) = 2

----------------------------------------------------------------------------
(* The two phases of history_top_by_year.py, checked under                 *)
(* SpecConsistency.                                                         *)

\* no entry of d is missing from d2 and none is lower in d2
Grown(d, d2) == DOMAIN d \subseteq DOMAIN d2 /\ \A k \in DOMAIN d : d2[k] >= d[k]

\* the same for a dict of dicts
GrownIn(d, d2) == DOMAIN d \subseteq DOMAIN d2 /\ \A a \in DOMAIN d : Grown(d[a], d2[a])

\* C21: while history_top_by_year streams records no count of a bucket
\* decreases and no entry is removed, and once the stream is exhausted no
\* step of the report changes a bucket: no count changes and no key is
\* inserted, defaultdict lookups included.
C21_TwoPhases ==
  [][script = "by_year" =>
       /\ pc = "stream" =>
            /\ GrownIn(song_counts_by_year, song_counts_by_year')
            /\ GrownIn(artist_counts_by_year, artist_counts_by_year')
            /\ Grown(global_song_counts, global_song_counts')
            /\ Grown(global_artist_counts, global_artist_counts')
            /\ GrownIn(artist_album_counts, artist_album_counts')
            /\ GrownIn(artist_song_counts, artist_song_counts')
       /\ pc # "stream" => UNCHANGED byYearVars]_vars

\* the report was finished after a stream that counted a play without ts and
\* left plays in at least two years
C21_Witness ==
  /\ script = "by_year" /\ pc = "done" /\ n >= 2
  /\ StrUnknown \in DOMAIN artist_counts_by_year
  /\ Cardinality(DOMAIN song_counts_by_year) >= 2

----------------------------------------------------------------------------
(* Properties of the catalog index and of the counts of                    *)
(* count_bad_bunny_playlist_plays.py, checked under Spec.                  *)

\* C22: once fetch_playlist_tracks has built the index, a history record
\* leaves uri_set, uri_to_display, key_to_display and display_to_key
\* unchanged: every display name a fallback match can give is a key of
\* display_to_key already, so the registration of lines 192-193 inserts
\* nothing and overwrites nothing.
C22_IndexUnchanged ==
  [][LoopStep({"playlist"}) =>
       /\ UNCHANGED <<uri_set, uri_to_display, key_to_display, display_to_key>>
       /\ \A nk \in DOMAIN key_to_display : key_to_display[nk] \in DOMAIN display_to_key]_vars

\* the latest record qualified and was matched by its title and artist, its
\* uri being absent or unknown
C22_Witness ==
  /\ script = "playlist" /\ pc = "stream" /\ n >= 1
  /\ Qualifies(last[1])
  /\ ~(last[1].spotify_track_uri # <<>> /\ last[1].spotify_track_uri \in uri_set)
  /\ MatchesCatalog(last[1])
  /\ total_plays >= 1

\* C23: in count_bad_bunny_playlist_plays, after every prefix of the stream,
\* total_plays is the sum of song_counts and the sum of all entries of
\* song_counts_by_year, and for every display name the count under the old
\* criteria is at most the count, so no "newly included" difference is
\* negative.
C23_TotalsAgree ==
  script = "playlist" =>
    /\ total_plays = SumValues(song_counts)
    /\ total_plays = TotalIn(song_counts_by_year)
    /\ DOMAIN song_counts_old \subseteq DOMAIN song_counts
    /\ \A d \in DOMAIN song_counts : song_counts[d] - Get(song_counts_old, d, 0) >= 0

\* a display name was counted more often than under the old criteria, and at
\* least once under them
C23_Witness ==
  /\ script = "playlist" /\ pc = "stream"
  /\ \E d \in DOMAIN song_counts_old : song_counts_old[d] < song_counts[d]
  /\ Cardinality(DOMAIN song_counts_by_year) >= 2

----------------------------------------------------------------------------
(* wipe_playlist of sort_playlist_by_release.py (a loop) and of main.py (a *)
(* recursion). A page holds PageLimit items, standing for the 100 of the   *)
(* source, and MaxDepth stands for the recursion limit of the interpreter. *)

MaxPlaylist == 3
PageLimit == 2
MaxDepth == 3

\* an item of a playlist: track is FALSE for an item whose "track" is None,
\* id is empty for a track whose "id" is None
PlaylistItem(track, id) == [track |-> track, id |-> id]

WipeItems == { PlaylistItem(TRUE, <<"a">>), PlaylistItem(TRUE, <<"b">>),
               PlaylistItem(TRUE, <<>>), PlaylistItem(FALSE, <<>>) }

HasTrackId(it) == it.track /\ it.id # <<>>

\* [it["track"]["id"] for it in items if it.get("track") and it["track"].get("id")]
TrackIds(items) ==
  LET kept == SelectSeq(items, HasTrackId)
  IN [i \in DOMAIN kept |-> kept[i].id]

\* the playlist after sp.playlist_remove_all_occurrences_of_items(playlist_id, ids):
\* every occurrence of a listed id is deleted
RemoveAll(items, ids) ==
  LET Stays(it) == ~(HasTrackId(it) /\ it.id \in Range(ids))
  IN SelectSeq(items, Stays)

InitWipe ==
  /\ script \in {"wipe", "wipe_main"}
  /\ pc = IF script = "wipe" THEN "loop" ELSE "call"
  /\ InitLoops /\ InitIter /\ InitCall
  /\ playlist \in SeqsUpTo(WipeItems, MaxPlaylist)
  /\ depth = 1

\* sort_playlist_by_release.py, lines 81-91: one turn of the loop
WipeLoop ==
  /\ script = "wipe" /\ pc = "loop"
  /\ LET page == Take(playlist, PageLimit)
         track_ids == TrackIds(page)
         next_is_none == Len(playlist) <= PageLimit
         left == RemoveAll(playlist, track_ids)
     IN IF track_ids = <<>>
        THEN pc' = "return" /\ depth' = 0 /\ playlist' = playlist
        ELSE /\ playlist' = left
             /\ IF next_is_none /\ left = <<>>
                THEN pc' = "return" /\ depth' = 0
                ELSE pc' = "loop" /\ depth' = depth
  /\ UNCHANGED <<script, n, last, track_display, byYearVars, groupedVars, platformVars,
                 indexVars, playlistVars, iterVars, callVars>>

\* main.py, lines 69-74: one call. track['track']['id'] raises TypeError for an
\* item without track; a None among the ids either makes the remove call
\* raise or deletes nothing; the call after MaxDepth calls raises RecursionError
WipeCall ==
  /\ script = "wipe_main" /\ pc = "call"
  /\ LET page == Take(playlist, PageLimit)
         playlist_tracks_uris == [i \in DOMAIN page |-> page[i].id]
         left == RemoveAll(playlist, playlist_tracks_uris)
     IN \/ /\ \E i \in DOMAIN page : ~page[i].track \/ page[i].id = <<>>
           /\ pc' = "raised" /\ depth' = 0 /\ playlist' = playlist
        \/ /\ \A i \in DOMAIN page : page[i].track
           /\ playlist' = left
           /\ IF Len(left) > 0
              THEN IF depth < MaxDepth
                   THEN pc' = "call" /\ depth' = depth + 1
                   ELSE pc' = "raised" /\ depth' = 0
              ELSE pc' = "return" /\ depth' = 0
  /\ UNCHANGED <<script, n, last, track_display, byYearVars, groupedVars, platformVars,
                 indexVars, playlistVars, iterVars, callVars>>

NextWipe == WipeLoop \/ WipeCall

SpecWipe == InitWipe /\ [][NextWipe]_vars

FairSpecWipe == SpecWipe /\ WF_vars(NextWipe)

\* C24: wipe_playlist returns, and when it returns the playlist is empty,
\* for every playlist: longer than a page, with items without a track id,
\* and in the recursive variant of main.py.
C24_EmptyOnReturn ==
  (script \in {"wipe", "wipe_main"} /\ pc = "return") => playlist = <<>>

\* every call of wipe_playlist returns
C24_Returns == <>(script \in {"wipe", "wipe_main"} /\ pc = "return")

\* every call of wipe_playlist ends, by a return or by an exception
C24_Ends == <>(script \in {"wipe", "wipe_main"} /\ pc \in {"return", "raised"})

\* a playlist of tracks that all have an id is empty when wipe_playlist returns
C24_EmptyWhenAllHaveIds ==
  (script \in {"wipe", "wipe_main"} /\ pc # "return")
    \/ playlist = <<>>
    \/ \E i \in DOMAIN playlist : ~HasTrackId(playlist[i])

====
